---- MODULE Spec2Model ----
(***************************************************************************)
(* Delta-neutral execution and risk-control core of the funding-rate       *)
(* arbitrage bot: PositionManager (position/manager.py), DeltaValidator    *)
(* (position/delta_validator.py), EmergencyController (risk/emergency.py)  *)
(* and the Orchestrator wrappers that call them (orchestrator.py).         *)
(*                                                                         *)
(* The program runs on one asyncio event loop: a step of the model is the  *)
(* code a task runs between two suspension points.  Quantities are counted *)
(* in units of the quantity step (0.001), so 20 stands for Decimal 0.020.  *)
(***************************************************************************)
EXTENDS Integers, Sequences, FiniteSets, TLC

\* ------------------------------------------------------------------ bounds
\* Number of positions the model lets open_position commit (ids 1..MaxPositions).
MaxPositions == 2
\* Hours of wall-clock time the funding-settlement model lets pass.
MaxTime == 17

\* ------------------------------------------------------- program constants
\* TradingSettings.delta_drift_tolerance = Decimal("0.02") = TolNum / TolDen
TolNum == 2
TolDen == 100
\* EmergencyController(max_retries=3)
MaxRetries == 3
\* asyncio.sleep(1 * (attempt + 1)): the base delay of the linear backoff
BaseDelay == 1

\* ------------------------------------------------------------ input sets
Bases == {"BTC", "ETH"}
\* Quantity calculate_matching_quantity returns for the call; NoQty is None.
NoQty == -1
ReqQty == 20

SpotSym(b) == IF b = "BTC" THEN "BTC/USDT" ELSE "ETH/USDT"
PerpSym(b) == IF b = "BTC" THEN "BTC/USDT:USDT" ELSE "ETH/USDT:USDT"

PosIds == 1..MaxPositions
TrigIds == {1, 2}

\* ---------------------------------------------------------------- records
\* models.OrderRequest (market orders only; price is None)
OrderRequest(sym, side, qty, cat) ==
    [symbol |-> sym, side |-> side, quantity |-> qty, category |-> cat]

\* models.OrderResult restricted to the fields the manager reads
OrderResult(oid, qty) == [order_id |-> oid, filled_qty |-> qty]
NoResult == [order_id |-> "none", filled_qty |-> -1]
\* the fill of a backend that fills the request completely
FullResults == {OrderResult("ord", ReqQty)}

\* models.Position restricted to the fields the core reads
Position(id, b, qty, soid, poid) ==
    [id |-> id, spot_symbol |-> SpotSym(b), perp_symbol |-> PerpSym(b),
     quantity |-> qty, spot_order_id |-> soid, perp_order_id |-> poid]
NoPosition == [id |-> 0, spot_symbol |-> "", perp_symbol |-> "",
               quantity |-> 0, spot_order_id |-> "", perp_order_id |-> ""]

\* one leg of asyncio.gather(place_order(spot), place_order(perp))
PendingLeg == [st |-> "pending", res |-> NoResult]
RaisedLeg == [st |-> "raised", res |-> NoResult]
FilledLeg(r) == [st |-> "filled", res |-> r]
IdleLeg == [st |-> "idle", res |-> NoResult]

\* ---------------------------------------------------------------- threads
\* the tasks that run Orchestrator._run_loop: the one start() awaits and
\* the one restart() creates
LoopIds == {0, 1}
LoopThread(n) == <<"cyc", n>>
CycThread == LoopThread(0)
OpThread(n) == <<"op", n>>
TrigThread(i) == <<"trig", i>>
TaskThread(p) == <<"task", p>>
NoThread == <<"none", 0>>
OpIds == {1, 2}
Threads == {LoopThread(n) : n \in LoopIds} \cup {OpThread(n) : n \in OpIds}
              \cup {TrigThread(i) : i \in TrigIds}
              \cup {TaskThread(p) : p \in PosIds}

\* The frame of one PositionManager.open_position / close_position call:
\* its arguments, its locals, the two legs it awaits and the orders it has
\* handed to the executor.  A thread that is not inside a call has IdleCall.
IdleCall == [op |-> "none", phase |-> "idle", base |-> "", pid |-> 0,
             quantity |-> 0, spot |-> IdleLeg, perp |-> IdleLeg,
             spot_result |-> NoResult, perp_result |-> NoResult,
             position |-> NoPosition, sent |-> <<>>]

\* What the most recent call made by an operator (dashboard action) returned
\* or raised, with the orders that call handed to the executor.
NoLast == [op |-> "none", outcome |-> "", pid |-> 0, sent |-> <<>>]

VARIABLES
    positions,   \* PositionManager._positions, in dict insertion order
    lock,        \* holder of PositionManager._lock, or NoThread
    call,        \* per thread: frame of its PositionManager call
    nextId,      \* next position id uuid4() hands out
    pnlOpen,     \* PnLTracker._position_pnl keys (record_open)
    pnlClosed,   \* ids PnLTracker.record_close was applied to
    triggered,   \* EmergencyController._triggered
    trig,        \* per trigger caller: frame of EmergencyController.trigger
    task,        \* per position id: frame of _close_with_retry
    running,     \* Orchestrator._running
    last,        \* outcome of the operators' most recently finished call
    cycleLock,   \* holder of Orchestrator._cycle_lock, or NoThread
    cyc,         \* per loop task: frame of _run_loop / _autonomous_cycle
    fn,          \* arguments and result of a function checked on its own
    funding      \* the clock, Orchestrator._last_funding_check, the settlements made

vars == <<positions, lock, call, nextId, pnlOpen, pnlClosed, triggered,
          trig, task, running, last, cycleLock, cyc, fn, funding>>

mgrVars == <<positions, lock, call, nextId, last>>
emgVars == <<triggered, trig, task, running>>
pnlVars == <<pnlOpen, pnlClosed>>
cycVars == <<cycleLock, cyc>>

\* ------------------------------------------------------ registry helpers
Ids(reg) == {reg[k].id : k \in DOMAIN reg}
HasId(reg, id) == id \in Ids(reg)
GetPos(reg, id) == reg[CHOOSE k \in DOMAIN reg : reg[k].id = id]
\* variant: the position is read and left in the registry
PopKeeps(reg, id) == reg
\* dict.pop(id)
Pop(reg, id) == SelectSeq(reg, LAMBDA p : p.id # id)
\* dict[id] = position for an id that is not a key: appended last
Put(reg, p) == Append(reg, p)
\* variant: the timeout handler forgets to put the position back
PutBackDropped(reg, position) == reg
\* manager.py 294: self._positions[position_id] = position after a timeout
PutBack(reg, position) == Put(reg, position)

\* ------------------------------------------------------- DeltaValidator
Abs(x) == IF x < 0 THEN -x ELSE x
Max(a, b) == IF a >= b THEN a ELSE b

\* DeltaValidator.validate: drift_pct = |spot - perp| / max(spot, perp) when
\* the maximum is positive, else 0; the verdict is drift_pct <= tolerance.
\* The fraction is kept as numerator and denominator (den = 1 for drift 0).
DriftNum(spot_qty, perp_qty) ==
    IF Max(spot_qty, perp_qty) > 0 THEN Abs(spot_qty - perp_qty) ELSE 0
DriftDen(spot_qty, perp_qty) ==
    IF Max(spot_qty, perp_qty) > 0 THEN Max(spot_qty, perp_qty) ELSE 1
\* variant: two zero fills count as out of tolerance
IsWithinToleranceOfNonzero(spot_qty, perp_qty) ==
    /\ Max(spot_qty, perp_qty) > 0
    /\ DriftNum(spot_qty, perp_qty) * TolDen <= TolNum * DriftDen(spot_qty, perp_qty)
\* variant: a drift equal to the tolerance fails
IsWithinToleranceStrict(spot_qty, perp_qty) ==
    DriftNum(spot_qty, perp_qty) * TolDen < TolNum * DriftDen(spot_qty, perp_qty)
\* delta_validator.py 56: is_within_tolerance = drift_pct <= tolerance
IsWithinTolerance(spot_qty, perp_qty) ==
    DriftNum(spot_qty, perp_qty) * TolDen <= TolNum * DriftDen(spot_qty, perp_qty)

\* --------------------------------------------- callers of the manager
\* PnLTracker.record_open / record_close as called by the Orchestrator
\* wrappers (orchestrator.py 466, 491) and by _close_with_retry (135).
\* record_close raises KeyError for an id record_open never saw.
RecordOpen(tracked, id) == tracked \cup {id}
RecordCloseOk(pid) == pid \in pnlOpen

\* What the caller of a PositionManager call does, without suspending, when
\* the call returns or raises.
\*  - Orchestrator.open_position / close_position (cycle, operator): ledger.
\*  - _close_with_retry: ledger, then success, backoff sleep or exhaustion.
\*  - Orchestrator.stop (the emergency stop callback): ledger, next position.
AfterCallPnl(op, outcome, pid) ==
    /\ pnlOpen' = IF op = "open" /\ outcome = "ok"
                  THEN RecordOpen(pnlOpen, pid) ELSE pnlOpen
    /\ pnlClosed' = IF op = "close" /\ outcome = "ok" /\ RecordCloseOk(pid)
                    THEN pnlClosed \cup {pid} ELSE pnlClosed

\* The sleep _close_with_retry takes after failed attempt number attempt + 1
\* (attempt is the 0-based loop index): none after the last attempt.
SleepsAfter(attempt) == attempt < MaxRetries - 1
\* variant: a constant delay instead of the linear backoff
BackoffConstant(attempt) == BaseDelay
Backoff(attempt) == BaseDelay * (attempt + 1)

\* variant: a success that follows failed attempts still ends in
\* raise last_error
TaskAfterCloseRaisesLast(tk, outcome, pid) ==
    LET attempt == Len(tk.hist)
        ok == outcome = "ok" /\ RecordCloseOk(pid)
    IN  IF ok
        THEN [tk EXCEPT !.st = IF attempt = 0 THEN "closed" ELSE "failed",
                        !.hist = Append(@, "ok")]
        ELSE IF SleepsAfter(attempt)
        THEN [tk EXCEPT !.st = "sleeping", !.hist = Append(@, "fail"),
                        !.slept = Append(@, Backoff(attempt))]
        ELSE [tk EXCEPT !.st = "failed", !.hist = Append(@, "fail")]

\* _close_with_retry lines 127-161 after close_position has returned or
\* raised: hist records each attempt as "ok" or "fail", slept each delay.
TaskAfterClose(tk, outcome, pid) ==
    LET attempt == Len(tk.hist)
        ok == outcome = "ok" /\ RecordCloseOk(pid)
    IN  IF ok
        THEN [tk EXCEPT !.st = "closed", !.hist = Append(@, "ok")]
        ELSE IF SleepsAfter(attempt)
        THEN [tk EXCEPT !.st = "sleeping", !.hist = Append(@, "fail"),
                        !.slept = Append(@, Backoff(attempt))]
        ELSE [tk EXCEPT !.st = "failed", !.hist = Append(@, "fail")]

\* variant: the loop ends after its first close
StopAfterCloseAbort(tr) ==
    [tr EXCEPT !.queue = <<>>, !.pc = "returned"]
\* Orchestrator.stop lines 147-155: the for loop moves to the next snapshotted position
\* whether the close returned or raised; after the last one stop() returns
\* and so does trigger().
StopAfterClose(tr) ==
    IF Len(tr.queue) > 1
    THEN [tr EXCEPT !.queue = Tail(@)]
    ELSE [tr EXCEPT !.queue = <<>>, !.pc = "returned"]

\* variant: the first task to exhaust its retries cancels its siblings,
\* as a gather without return_exceptions would leave them
TasksAfterCloseCancelling(tasks, p, outcome, pid) ==
    LET mine == TaskAfterClose(tasks[p], outcome, pid)
    IN  [q \in DOMAIN tasks |->
            IF q = p THEN mine
            ELSE IF mine.st = "failed" /\ tasks[q].st \in {"running", "sleeping"}
            THEN [tasks[q] EXCEPT !.st = "failed"]
            ELSE tasks[q]]
\* trigger lines 81-82: each position has its own _close_with_retry
\* coroutine, and gather(return_exceptions=True) keeps an exception of one
\* as that one's result: only the frame of task p changes.
TasksAfterClose(tasks, p, outcome, pid) ==
    [tasks EXCEPT ![p] = TaskAfterClose(@, outcome, pid)]

\* The frame of one loop task.  pc: "off" (not created), "restarting"
\* (restart() awaits the funding monitor), "top" (at the while test),
\* "closing" / "opening" / "admitted" / "margin" / "emergency" (inside
\* _autonomous_cycle), "sleeping", "done".  closes and opps are what is left
\* of the two for loops, denied the bases check_can_open rejected in this
\* cycle, mm the margin ratio read in this cycle, invoked the number of
\* calls of EmergencyController.trigger made in this cycle, has_rates whether
\* the scan of this cycle found funding rates.
NoRate == -1
TopCyc == [pc |-> "top", closes |-> <<>>, opps |-> <<>>, denied |-> {},
           mm |-> NoRate, invoked |-> 0, has_rates |-> FALSE]
OffCyc == [TopCyc EXCEPT !.pc = "off"]

\* _close_unprofitable_positions 318-325 and _open_profitable_positions
\* 350-363: the call returned or raised (logged); the loop goes on with the
\* next position or opportunity.
\* _open_profitable_positions 331: the for loop over the opportunities goes
\* on with rest; after the last one the cycle reaches _check_margin_ratio.
CycNextOpp(cy, rest) ==
    IF rest = <<>>
    THEN [cy EXCEPT !.opps = <<>>, !.pc = "margin"]
    ELSE [cy EXCEPT !.opps = rest, !.pc = "opening"]
\* _close_unprofitable_positions 304: the for loop over the snapshot goes on
\* with rest; after the last position the cycle turns to the opportunities.
CycNextClose(cy, rest) ==
    IF rest = <<>>
    THEN CycNextOpp([cy EXCEPT !.closes = <<>>], cy.opps)
    ELSE [cy EXCEPT !.closes = rest]

CycAfterCall(cy) ==
    IF cy.pc = "closing" THEN CycNextClose(cy, Tail(cy.closes))
    ELSE IF cy.pc = "admitted" THEN CycNextOpp(cy, Tail(cy.opps))
    ELSE cy

AfterCall(t, op, outcome, pid, sent) ==
    /\ call' = [call EXCEPT ![t] = IdleCall]
    /\ cyc' = IF t[1] = "cyc" THEN [cyc EXCEPT ![t[2]] = CycAfterCall(@)] ELSE cyc
    /\ cycleLock' = cycleLock
    /\ fn' = fn
    /\ funding' = funding
    /\ last' = IF t[1] = "op"
               THEN [op |-> op, outcome |-> outcome, pid |-> pid, sent |-> sent]
               ELSE last
    /\ AfterCallPnl(op, outcome, pid)
    /\ triggered' = triggered
    /\ running' = running
    /\ task' = IF t[1] = "task"
               THEN TasksAfterClose(task, t[2], outcome, pid)
               ELSE task
    /\ trig' = IF t[1] = "trig"
               THEN [trig EXCEPT ![t[2]] = StopAfterClose(@)]
               ELSE trig

\* The thread is at a point where it calls open_position.
MayOpen(t) ==
    /\ t[1] \in {"cyc", "op"}
    /\ call[t].phase = "idle"

\* The thread is at a point where it calls close_position(pid).
MayClose(t, pid) ==
    /\ call[t].phase = "idle"
    /\ \/ t[1] \in {"cyc", "op"}
       \/ t[1] = "task" /\ pid = t[2] /\ task[pid].st = "running"
       \/ t[1] = "trig" /\ trig[t[2]].pc = "stopping"
            /\ trig[t[2]].queue # <<>> /\ pid = Head(trig[t[2]].queue)

\* variant: the body runs without waiting for the lock
LockIgnored == TRUE
\* async with self._lock: asyncio.Lock.acquire returns only when unlocked.
LockFree == lock = NoThread

\* ------------------------------------------- PositionManager.open_position
\* Lines 110-160: take the lock, price the pair, size it and start both legs.
\* priced = a price exists for the perp or the spot symbol; sized = the
\* result of calculate_matching_quantity (NoQty = None).
OpenBegin(t, b, priced, sized) ==
    /\ MayOpen(t)
    /\ LockFree
    /\ nextId <= MaxPositions
    /\ IF ~priced
       THEN /\ lock' = lock
            /\ AfterCall(t, "open", "price_unavailable", 0, <<>>)
       ELSE IF sized = NoQty
       THEN /\ lock' = lock
            /\ AfterCall(t, "open", "insufficient_size", 0, <<>>)
       ELSE /\ call' = [call EXCEPT ![t] =
                          [IdleCall EXCEPT !.op = "open", !.base = b,
                             !.phase = "executing", !.quantity = sized,
                             !.spot = PendingLeg, !.perp = PendingLeg,
                             !.sent = <<OrderRequest(SpotSym(b), "buy", sized, "spot"),
                                        OrderRequest(PerpSym(b), "sell", sized, "linear")>>]]
            /\ lock' = t
            /\ UNCHANGED <<last, pnlVars, emgVars, cycVars, fn, funding>>
    /\ UNCHANGED <<positions, nextId>>

\* TickerService.get_price returns None for a symbol it has no price for
NoPrice == -1
Prices == {1, 2}
\* variant: the spot price is preferred
ReferencePriceSpotFirst(perp_price, spot_price) ==
    IF spot_price # NoPrice THEN spot_price ELSE perp_price
\* manager.py 112-114: the perp price, or the spot price when there is none
ReferencePrice(perp_price, spot_price) ==
    IF perp_price # NoPrice THEN perp_price ELSE spot_price

\* open_position called with the ticker holding perp_price and spot_price;
\* sizes[price] is what calculate_matching_quantity returns at that price.
OpenPosition(t, b, perp_price, spot_price, sizes) ==
    LET price == ReferencePrice(perp_price, spot_price)
    IN  OpenBegin(t, b, price # NoPrice, IF price = NoPrice THEN NoQty ELSE sizes[price])

\* Executor.place_order of one leg returns an OrderResult to the gather.
LegFill(t, leg, r) ==
    /\ call[t].phase = "executing"
    /\ call[t].spot.st # "raised" /\ call[t].perp.st # "raised"
    /\ IF leg = "spot"
       THEN /\ call[t].spot.st = "pending"
            /\ call' = [call EXCEPT ![t].spot = FilledLeg(r)]
       ELSE /\ call[t].perp.st = "pending"
            /\ call' = [call EXCEPT ![t].perp = FilledLeg(r)]
    /\ UNCHANGED <<positions, lock, nextId, last, pnlVars, emgVars, cycVars, fn, funding>>

\* Executor.place_order of one leg raises: gather fails with that exception.
LegRaise(t, leg) ==
    /\ call[t].phase = "executing"
    /\ call[t].spot.st # "raised" /\ call[t].perp.st # "raised"
    /\ IF leg = "spot"
       THEN /\ call[t].spot.st = "pending"
            /\ call' = [call EXCEPT ![t].spot = RaisedLeg]
       ELSE /\ call[t].perp.st = "pending"
            /\ call' = [call EXCEPT ![t].perp = RaisedLeg]
    /\ UNCHANGED <<positions, lock, nextId, last, pnlVars, emgVars, cycVars, fn, funding>>

GatherDone(c) == c.spot.st = "filled" /\ c.perp.st = "filled"
GatherRaised(c) == c.spot.st = "raised" \/ c.perp.st = "raised"

\* variant: the timeout handler reverses the leg that had filled
TimeoutOrdersReversing(c) ==
    IF c.spot.st = "filled"
    THEN <<OrderRequest(SpotSym(c.base), "sell", c.spot.res.filled_qty, "spot")>>
    ELSE IF c.perp.st = "filled"
    THEN <<OrderRequest(PerpSym(c.base), "buy", c.perp.res.filled_qty, "linear")>>
    ELSE <<>>
\* Lines 161-173: the orders the TimeoutError handler hands to the executor:
\* it logs and raises DeltaHedgeTimeout, nothing is cancelled or reversed.
TimeoutOrders(c) == <<>>

\* Lines 161-173: wait_for expires before the gather has a result.
OpenTimeout(t) ==
    /\ call[t].op = "open" /\ call[t].phase = "executing"
    /\ ~GatherDone(call[t]) /\ ~GatherRaised(call[t])
    /\ lock' = NoThread
    /\ AfterCall(t, "open", "hedge_timeout", 0, call[t].sent \o TimeoutOrders(call[t]))
    /\ UNCHANGED <<positions, nextId>>

\* _rollback_leg (328-365): one reversing market order for a filled leg; a
\* failure of that order is logged and swallowed.
RollbackOrder(result, symbol, category, reverse_side) ==
    OrderRequest(symbol, reverse_side, result.filled_qty, category)

\* variant: the except branch reverses the leg that had filled when the other
\* one raised
RollbackOrdersOfFilledLeg(c) ==
    IF c.spot.st = "filled"
    THEN <<RollbackOrder(c.spot.res, SpotSym(c.base), "spot", "sell")>>
    ELSE IF c.perp.st = "filled"
    THEN <<RollbackOrder(c.perp.res, PerpSym(c.base), "linear", "buy")>>
    ELSE <<>>
\* Lines 182-190: which leg the except branch reverses.  It reads the locals
\* spot_result / perp_result, which line 154 assigns only when the gather
\* returns both results.
RollbackOrders(c) ==
    IF c.spot_result # NoResult /\ c.perp_result = NoResult
    THEN <<RollbackOrder(c.spot_result, SpotSym(c.base), "spot", "sell")>>
    ELSE IF c.perp_result # NoResult /\ c.spot_result = NoResult
    THEN <<RollbackOrder(c.perp_result, PerpSym(c.base), "linear", "buy")>>
    ELSE <<>>

\* Lines 174-194: the gather raised; roll back, raise DeltaHedgeError.
OpenPartialFailure(t) ==
    /\ call[t].op = "open" /\ call[t].phase = "executing"
    /\ GatherRaised(call[t])
    /\ lock' = NoThread
    /\ AfterCall(t, "open", "hedge_error", 0, call[t].sent \o RollbackOrders(call[t]))
    /\ UNCHANGED <<positions, nextId>>

\* variant: both unwind orders use the spot quantity
CloseLegsOrdersSpotQty(b, spot_qty, perp_qty) ==
    <<OrderRequest(SpotSym(b), "sell", spot_qty, "spot"),
      OrderRequest(PerpSym(b), "buy", spot_qty, "linear")>>
\* _close_legs (367-412): spot SELL and perp BUY at the given quantities.
CloseLegsOrders(b, spot_qty, perp_qty) ==
    <<OrderRequest(SpotSym(b), "sell", spot_qty, "spot"),
      OrderRequest(PerpSym(b), "buy", perp_qty, "linear")>>

\* Lines 218-234: the Position open_position builds from the two results.
NewPosition(id, c, spot_result, perp_result) ==
    Position(id, c.base, spot_result.filled_qty,
             spot_result.order_id, perp_result.order_id)

\* Lines 154, 196-247: the gather returned both results; validate the delta,
\* then either start the unwind of both legs or register the position.
OpenValidate(t) ==
    /\ call[t].op = "open" /\ call[t].phase = "executing"
    /\ GatherDone(call[t])
    /\ LET c == call[t]
           sr == c.spot.res
           pr == c.perp.res
       IN  IF ~IsWithinTolerance(sr.filled_qty, pr.filled_qty)
           THEN /\ call' = [call EXCEPT ![t] =
                              [c EXCEPT !.phase = "unwinding",
                                 !.spot_result = sr, !.perp_result = pr,
                                 !.spot = IdleLeg, !.perp = IdleLeg,
                                 !.sent = c.sent \o CloseLegsOrders(
                                            c.base, sr.filled_qty, pr.filled_qty)]]
                /\ UNCHANGED <<positions, lock, nextId, last, pnlVars, emgVars, cycVars, fn, funding>>
           ELSE /\ positions' = Put(positions, NewPosition(nextId, c, sr, pr))
                /\ nextId' = nextId + 1
                /\ lock' = NoThread
                /\ AfterCall(t, "open", "ok", nextId, c.sent)

\* Lines 209-216: _close_legs is over (both unwind orders returned, or one
\* raised and was logged); the call raises DeltaDriftExceeded.
OpenUnwindDone(t) ==
    /\ call[t].op = "open" /\ call[t].phase = "unwinding"
    /\ lock' = NoThread
    /\ AfterCall(t, "open", "delta_drift_exceeded", 0, call[t].sent)
    /\ UNCHANGED <<positions, nextId>>

\* ------------------------------------------ PositionManager.close_position
\* Lines 269-282: the two closing orders, both at position.quantity.
CloseOrders(position) ==
    <<OrderRequest(position.spot_symbol, "sell", position.quantity, "spot"),
      OrderRequest(position.perp_symbol, "buy", position.quantity, "linear")>>

\* Lines 266-291: take the lock, pop the position (KeyError when absent) and
\* start both closing legs at position.quantity.
CloseBegin(t, pid) ==
    /\ MayClose(t, pid)
    /\ LockFree
    /\ IF ~HasId(positions, pid)
       THEN /\ lock' = lock
            /\ positions' = positions
            /\ AfterCall(t, "close", "key_error", pid, <<>>)
       ELSE LET position == GetPos(positions, pid)
            IN  /\ positions' = Pop(positions, pid)
                /\ call' = [call EXCEPT ![t] =
                      [IdleCall EXCEPT !.op = "close", !.pid = pid,
                         !.phase = "executing", !.position = position,
                         !.quantity = position.quantity,
                         !.spot = PendingLeg, !.perp = PendingLeg,
                         !.sent = CloseOrders(position)]]
                /\ lock' = t
                /\ UNCHANGED <<last, pnlVars, emgVars, cycVars, fn, funding>>
    /\ UNCHANGED nextId

\* Lines 292-297: wait_for expires; the position is put back.
CloseTimeout(t) ==
    /\ call[t].op = "close" /\ call[t].phase = "executing"
    /\ ~GatherDone(call[t]) /\ ~GatherRaised(call[t])
    /\ positions' = PutBack(positions, call[t].position)
    /\ lock' = NoThread
    /\ AfterCall(t, "close", "hedge_timeout", call[t].pid, call[t].sent)
    /\ UNCHANGED nextId

\* Lines 284-297: the gather raised something other than TimeoutError; no
\* handler matches, the exception leaves close_position.
CloseLegFailure(t) ==
    /\ call[t].op = "close" /\ call[t].phase = "executing"
    /\ GatherRaised(call[t])
    /\ lock' = NoThread
    /\ AfterCall(t, "close", "leg_error", call[t].pid, call[t].sent)
    /\ UNCHANGED <<positions, nextId>>

\* Lines 285, 299-307: both closing legs returned.
CloseDone(t) ==
    /\ call[t].op = "close" /\ call[t].phase = "executing"
    /\ GatherDone(call[t])
    /\ lock' = NoThread
    /\ AfterCall(t, "close", "ok", call[t].pid, call[t].sent)
    /\ UNCHANGED <<positions, nextId>>

\* ------------------------------------------------------ EmergencyController
IdleTrig == [pc |-> "idle", noop |-> FALSE, snapshot |-> <<>>,
             closed_ids |-> <<>>, failed_ids |-> <<>>, stops |-> 0,
             queue |-> <<>>]
IdleTask == [st |-> "none", hist |-> <<>>, slept |-> <<>>, owner |-> 0]

\* PositionManager.get_open_positions, as the ids in registry order
OpenIds(reg) == [k \in DOMAIN reg |-> reg[k].id]

\* Orchestrator.stop up to its first suspension, run as the stop callback:
\* _running = False, snapshot the registry, start closing the first position;
\* with an empty snapshot stop() returns at once and so does trigger().
StopBegin(tr, reg) ==
    IF reg = <<>>
    THEN [tr EXCEPT !.pc = "returned", !.stops = @ + 1]
    ELSE [tr EXCEPT !.pc = "stopping", !.stops = @ + 1, !.queue = OpenIds(reg)]

\* variant: stop() runs under the cycle lock
StopWaitsForCycleLock == cycleLock = NoThread
\* Orchestrator.stop 139-155 acquires no lock before it sets _running and
\* starts closing: whoever awaits it enters at once.
StopTakesNoLock == TRUE

\* variant: the flag is never consulted
NeverTriggered == FALSE
\* trigger line 66: the guard against a second emergency stop
AlreadyTriggered == triggered

\* variant: trigger leaves the flag as it found it
TriggeredOnEntryLeftUnset == FALSE
\* trigger line 70: self._triggered = True
TriggeredOnEntry == TRUE

\* trigger lines 66-82: the flag test and set, the snapshot, and either the
\* stop callback (no positions) or one _close_with_retry task per position.
TriggerCall(i) ==
    /\ trig[i].pc = "idle"
    /\ IF AlreadyTriggered
       THEN /\ trig' = [trig EXCEPT ![i] = [@ EXCEPT !.pc = "returned", !.noop = TRUE]]
            /\ UNCHANGED <<triggered, task, running>>
       ELSE /\ triggered' = TriggeredOnEntry
            /\ IF positions = <<>>
               THEN /\ StopTakesNoLock
                    /\ trig' = [trig EXCEPT ![i] = StopBegin(@, positions)]
                    /\ running' = FALSE
                    /\ task' = task
               ELSE /\ trig' = [trig EXCEPT ![i] =
                                  [@ EXCEPT !.pc = "gathering",
                                            !.snapshot = OpenIds(positions)]]
                    /\ task' = [p \in PosIds |->
                                  IF HasId(positions, p)
                                  THEN [IdleTask EXCEPT !.st = "running", !.owner = i]
                                  ELSE task[p]]
                    /\ running' = running

\* trigger() called from outside the cycle (signal handler, dashboard)
Trigger(i) ==
    /\ TriggerCall(i)
    /\ UNCHANGED <<mgrVars, pnlVars, cycVars, fn, funding>>

\* _close_with_retry line 159: the backoff sleep is over, next attempt.
TaskWake(p) ==
    /\ task[p].st = "sleeping"
    /\ task' = [task EXCEPT ![p].st = "running"]
    /\ UNCHANGED <<mgrVars, pnlVars, triggered, trig, running, cycVars, fn, funding>>

Settled(tk) == tk.st \in {"closed", "failed"}
\* trigger line 88: a task whose result is not an exception closed its position
IsClosedResult(tk) == tk.st = "closed"
\* variant: the gather returns as soon as one task has settled
AnySettled(snapshot) == \E k \in DOMAIN snapshot : Settled(task[snapshot[k]])
\* asyncio.gather(*tasks, return_exceptions=True) has a result
AllSettled(snapshot) == \A k \in DOMAIN snapshot : Settled(task[snapshot[k]])

\* trigger lines 82-108: the gather over the close tasks returned; sort the
\* outcomes into closed_ids / failed_ids and await the stop callback.
TrigCollect(i) ==
    /\ trig[i].pc = "gathering"
    /\ AllSettled(trig[i].snapshot)
    /\ StopTakesNoLock
    /\ LET tr == trig[i]
           closed == SelectSeq(tr.snapshot, LAMBDA p : IsClosedResult(task[p]))
           failed == SelectSeq(tr.snapshot, LAMBDA p : ~IsClosedResult(task[p]))
       IN  trig' = [trig EXCEPT ![i] =
                      StopBegin([tr EXCEPT !.closed_ids = closed,
                                           !.failed_ids = failed], positions)]
    /\ running' = FALSE
    /\ UNCHANGED <<mgrVars, pnlVars, triggered, task, cycVars, fn, funding>>

\* no function is being checked on its own
NoFn == [name |-> "none"]

\* start() 131: _last_funding_check = time.time(), taken as hour 0; settled
\* lists the hours at which simulate_funding_settlement was called, pc is the
\* place of the loop task in _run_loop
NoFunding == [pc |-> "top", now |-> 0, last_funding_check |-> 0, settled |-> <<>>]

\* ------------------------------------------------------------ the system
Init ==
    /\ positions = <<>>
    /\ lock = NoThread
    /\ call = [t \in Threads |-> IdleCall]
    /\ nextId = 1
    /\ pnlOpen = {}
    /\ pnlClosed = {}
    /\ triggered = FALSE
    /\ trig = [i \in TrigIds |-> IdleTrig]
    /\ task = [p \in PosIds |-> IdleTask]
    /\ running = TRUE
    /\ last = NoLast
    /\ cycleLock = NoThread
    /\ cyc = [n \in LoopIds |-> IF n = 0 THEN TopCyc ELSE OffCyc]
    /\ funding = NoFunding
    /\ fn = NoFn

\* The PositionManager under two concurrent callers of the Orchestrator
\* wrappers (two operator actions), with every kind of OrderResult an
\* executor can return: a full fill, a short fill, and an empty answer.
MgrThreads == {OpThread(n) : n \in OpIds}
\* LiveExecutor.place_order 59-65 takes id and filled from the exchange
\* answer, defaulting to "" and 0.
MgrResults == {OrderResult("ord", ReqQty), OrderResult("ord", ReqQty - 1),
               OrderResult("", 0)}

Next ==
    \/ \E t \in MgrThreads, b \in Bases, perp_price \in Prices \cup {NoPrice},
          spot_price \in Prices \cup {NoPrice}, sizes \in [Prices -> {NoQty, ReqQty}] :
          OpenPosition(t, b, perp_price, spot_price, sizes)
    \/ \E t \in MgrThreads, leg \in {"spot", "perp"}, r \in MgrResults : LegFill(t, leg, r)
    \/ \E t \in MgrThreads, leg \in {"spot", "perp"} : LegRaise(t, leg)
    \/ \E t \in MgrThreads : OpenTimeout(t)
    \/ \E t \in MgrThreads : OpenPartialFailure(t)
    \/ \E t \in MgrThreads : OpenValidate(t)
    \/ \E t \in MgrThreads : OpenUnwindDone(t)
    \/ \E t \in MgrThreads, pid \in PosIds : CloseBegin(t, pid)
    \/ \E t \in MgrThreads : CloseTimeout(t)
    \/ \E t \in MgrThreads : CloseLegFailure(t)
    \/ \E t \in MgrThreads : CloseDone(t)

Spec == Init /\ [][Next]_vars

\* The EmergencyController over the PositionManager: the cycle opens
\* positions through a backend that fills completely, raises or hangs, while
\* two callers race on trigger(); every close comes from the emergency close
\* tasks and from the stop callback.
EmgThreads == {CycThread} \cup {TrigThread(i) : i \in TrigIds}
                \cup {TaskThread(p) : p \in PosIds}

NextEmg ==
    \/ OpenBegin(CycThread, "BTC", TRUE, ReqQty)
    \/ \E t \in EmgThreads, leg \in {"spot", "perp"}, r \in FullResults : LegFill(t, leg, r)
    \/ \E t \in EmgThreads, leg \in {"spot", "perp"} : LegRaise(t, leg)
    \/ \E t \in EmgThreads : OpenTimeout(t)
    \/ \E t \in EmgThreads : OpenPartialFailure(t)
    \/ \E t \in EmgThreads : OpenValidate(t)
    \/ \E t \in EmgThreads \ {CycThread}, pid \in PosIds : CloseBegin(t, pid)
    \/ \E t \in EmgThreads : CloseTimeout(t)
    \/ \E t \in EmgThreads : CloseLegFailure(t)
    \/ \E t \in EmgThreads : CloseDone(t)
    \/ \E i \in TrigIds : Trigger(i)
    \/ \E p \in PosIds : TaskWake(p)
    \/ \E i \in TrigIds : TrigCollect(i)

SpecEmg == Init /\ [][NextEmg]_vars

\* ------------------------------------------------- RiskManager.check_can_open
\* RiskSettings defaults (config.py 41-42) and the size the cycle proposes
\* (TradingSettings.max_position_size_usd, config.py 29), in USD
MaxPositionSizePerPair == 1000
MaxSimultaneousPositions == 5
MaxPositionSizeUsd == 1000

PerpSymbols(current_positions) ==
    {current_positions[k].perp_symbol : k \in DOMAIN current_positions}

Allowed == [allowed |-> TRUE, reason |-> ""]
Denied(reason) == [allowed |-> FALSE, reason |-> reason]

\* variant: the concurrency cap is tested before the size checks
CheckCanOpenCapFirst(symbol, position_size_usd, current_positions, max_position_size_per_pair, max_simultaneous_positions) ==
    IF Len(current_positions) >= max_simultaneous_positions
    THEN Denied("At max positions")
    ELSE IF position_size_usd <= 0
    THEN Denied("Position size must be positive")
    ELSE IF position_size_usd > max_position_size_per_pair
    THEN Denied("Exceeds max per-pair size")
    ELSE IF symbol \in PerpSymbols(current_positions)
    THEN Denied("Already have position")
    ELSE Allowed
\* risk/manager.py 72-94; the two settings are RiskSettings fields
CheckCanOpen(symbol, position_size_usd, current_positions, max_position_size_per_pair, max_simultaneous_positions) ==
    IF position_size_usd <= 0
    THEN Denied("Position size must be positive")
    ELSE IF position_size_usd > max_position_size_per_pair
    THEN Denied("Exceeds max per-pair size")
    ELSE IF Len(current_positions) >= max_simultaneous_positions
    THEN Denied("At max positions")
    ELSE IF symbol \in PerpSymbols(current_positions)
    THEN Denied("Already have position")
    ELSE Allowed

\* check_can_open on its own: every combination of a proposed size around 0
\* and around the per-pair cap, a concurrency cap around the number of open
\* positions, and a symbol that is or is not the perp (or only the spot)
\* symbol of an open position.
NoOut == [allowed |-> FALSE, reason |-> "not called"]
RiskSizes == {-1, 0, 1, MaxPositionSizePerPair, MaxPositionSizePerPair + 1}
RiskPerPairCaps == {1, MaxPositionSizePerPair}
RiskPositionCaps == {0, 1, 2, MaxSimultaneousPositions}
RiskSymbols == {PerpSym("BTC"), PerpSym("ETH"), SpotSym("BTC")}
RiskCurrent ==
    {<<>>}
      \cup {<<Position(1, b, ReqQty, "ord", "ord")>> : b \in Bases}
      \cup {<<Position(1, b1, ReqQty, "ord", "ord"),
              Position(2, b2, ReqQty, "ord", "ord")>> : b1 \in Bases, b2 \in Bases}

InitRisk ==
    /\ positions = <<>>
    /\ lock = NoThread
    /\ call = [t \in Threads |-> IdleCall]
    /\ nextId = 1
    /\ pnlOpen = {}
    /\ pnlClosed = {}
    /\ triggered = FALSE
    /\ trig = [i \in TrigIds |-> IdleTrig]
    /\ task = [p \in PosIds |-> IdleTask]
    /\ running = TRUE
    /\ last = NoLast
    /\ cycleLock = NoThread
    /\ cyc = [n \in LoopIds |-> IF n = 0 THEN TopCyc ELSE OffCyc]
    /\ funding = NoFunding
    /\ \E symbol \in RiskSymbols, size \in RiskSizes, current \in RiskCurrent,
          per_pair \in RiskPerPairCaps, max_pos \in RiskPositionCaps :
          fn = [name |-> "check_can_open", symbol |-> symbol,
                position_size_usd |-> size, current_positions |-> current,
                max_position_size_per_pair |-> per_pair,
                max_simultaneous_positions |-> max_pos, out |-> NoOut]

RiskCheck ==
    /\ fn.name = "check_can_open" /\ fn.out = NoOut
    /\ fn' = [fn EXCEPT !.out = CheckCanOpen(fn.symbol, fn.position_size_usd,
                                fn.current_positions,
                                fn.max_position_size_per_pair,
                                fn.max_simultaneous_positions)]
    /\ UNCHANGED <<mgrVars, pnlVars, emgVars, cycVars, funding>>

NextRisk == RiskCheck

SpecRisk == InitRisk /\ [][NextRisk]_vars

\* ------------------------------------------ Orchestrator: the cycle loop
\* RiskSettings.margin_alert_threshold / margin_critical_threshold
\* (config.py 44-45), in percent
MarginAlertThreshold == 80
MarginCriticalThreshold == 90
\* accountMMRate values a cycle may read, in percent
MarginRates == {MarginAlertThreshold - 1, MarginAlertThreshold,
                MarginCriticalThreshold - 1, MarginCriticalThreshold,
                MarginCriticalThreshold + 1}

\* risk/manager.py 118: is_alert
IsMarginAlert(mm_rate) == mm_rate >= MarginAlertThreshold
\* variant: the critical threshold itself is not critical
IsMarginCriticalStrict(mm_rate) == mm_rate > MarginCriticalThreshold
\* risk/manager.py 140: is_margin_critical
IsMarginCritical(mm_rate) == mm_rate >= MarginCriticalThreshold

\* models.OpportunityScore, the fields the cycle reads
Opp(b, passes_filters) == [base |-> b, passes_filters |-> passes_filters]
\* ranked opportunity lists a scan may produce (one entry per pair)
OppLists == {<<>>,
             <<Opp("BTC", TRUE)>>,
             <<Opp("BTC", TRUE), Opp("ETH", TRUE)>>,
             <<Opp("ETH", FALSE), Opp("BTC", TRUE)>>}

\* the frame of EmergencyController.trigger a loop task uses
TrigOf(l) == l + 1

InCycle(l) == cyc[l].pc \in {"closing", "opening", "admitted", "margin", "emergency"}

\* variant: the cycle runs without the lock
CycleLockIgnored == TRUE
\* _run_loop 165: async with self._cycle_lock
CycleLockFree == cycleLock = NoThread

\* variant: the cycle also returns at once when nothing was ranked
ReturnsEarlyWithoutOpportunities(has_rates, opportunities) ==
    ~has_rates \/ opportunities = <<>>
\* _autonomous_cycle 268-271: if not all_rates: return
ReturnsEarly(has_rates, opportunities) == ~has_rates

\* _run_loop 163-166 and _autonomous_cycle 246-293: the while test, the
\* lock, the scan (no rates: the cycle returns at once and the loop sleeps),
\* the ranking and the snapshot of _close_unprofitable_positions.
CycStart(l, has_rates, opportunities) ==
    /\ cyc[l].pc = "top" /\ running
    /\ CycleLockFree
    /\ IF ReturnsEarly(has_rates, opportunities)
       THEN /\ cyc' = [cyc EXCEPT ![l] = [TopCyc EXCEPT !.pc = "sleeping",
                                                        !.has_rates = has_rates]]
            /\ cycleLock' = cycleLock
       ELSE /\ cyc' = [cyc EXCEPT ![l] =
                         CycNextClose([TopCyc EXCEPT !.pc = "closing",
                                                     !.opps = opportunities,
                                                     !.has_rates = has_rates],
                                      OpenIds(positions))]
            /\ cycleLock' = LoopThread(l)
    /\ UNCHANGED <<mgrVars, pnlVars, emgVars, fn, funding>>

\* _run_loop 163: the while test fails, the loop task ends.
CycExit(l) ==
    /\ cyc[l].pc = "top" /\ ~running
    /\ cyc' = [cyc EXCEPT ![l].pc = "done"]
    /\ UNCHANGED <<mgrVars, pnlVars, emgVars, cycleLock, fn, funding>>

\* RiskSettings.exit_funding_rate (config.py 43), in units of 0.00001
ExitFundingRate == 10
\* what get_funding_rate may give for a position: None, or a rate below, at
\* or above the exit rate
FundingRates == {NoRate, 0, ExitFundingRate - 1, ExitFundingRate, ExitFundingRate + 1}

\* variant: a rate equal to the exit rate closes the position
ShouldCloseAtThreshold(rate) == rate = NoRate \/ rate <= ExitFundingRate
\* _close_unprofitable_positions 305-306:
\* rate_data is None or rate_data.rate < exit_funding_rate
ShouldClose(rate) == rate = NoRate \/ rate < ExitFundingRate

\* _close_unprofitable_positions 305-306: the rate of the position is at or
\* above the exit rate; the position is kept.
CycKeep(l, rate) ==
    /\ cyc[l].pc = "closing" /\ call[LoopThread(l)].phase = "idle"
    /\ ~ShouldClose(rate)
    /\ cyc' = [cyc EXCEPT ![l] = CycNextClose(@, Tail(@.closes))]
    /\ UNCHANGED <<mgrVars, pnlVars, emgVars, cycleLock, fn, funding>>

\* _close_unprofitable_positions 306-319: the rate is missing or below the
\* exit rate; close the position.
CycClose(l, rate) ==
    /\ cyc[l].pc = "closing"
    /\ ShouldClose(rate)
    /\ CloseBegin(LoopThread(l), Head(cyc[l].closes))

\* variant: a denial ends the for loop (break instead of continue)
AfterDenialBreak(cy, b) ==
    [cy EXCEPT !.denied = @ \cup {b}, !.opps = <<>>, !.pc = "margin"]
\* _open_profitable_positions 341-347: log the rejection and continue
AfterDenial(cy, b) ==
    CycNextOpp([cy EXCEPT !.denied = @ \cup {b}], Tail(cy.opps))

\* _open_profitable_positions 331-347: the filter flag and the admission
\* check of the next opportunity.
CycConsider(l) ==
    /\ cyc[l].pc = "opening" /\ call[LoopThread(l)].phase = "idle"
    /\ LET opp == Head(cyc[l].opps)
           verdict == CheckCanOpen(PerpSym(opp.base), MaxPositionSizeUsd, positions,
                                   MaxPositionSizePerPair, MaxSimultaneousPositions)
       IN  cyc' = [cyc EXCEPT ![l] =
                     IF ~opp.passes_filters THEN CycNextOpp(@, Tail(@.opps))
                     ELSE IF ~verdict.allowed THEN AfterDenial(@, opp.base)
                     ELSE [@ EXCEPT !.pc = "admitted"]]
    /\ UNCHANGED <<mgrVars, pnlVars, emgVars, cycleLock, fn, funding>>

\* Orchestrator.open_position 448-455: fetch_balance or get_instrument_info
\* raises; _open_profitable_positions logs it and continues.
CycPrepFail(l) ==
    /\ cyc[l].pc = "admitted" /\ call[LoopThread(l)].phase = "idle"
    /\ cyc' = [cyc EXCEPT ![l] = CycNextOpp(@, Tail(@.opps))]
    /\ UNCHANGED <<mgrVars, pnlVars, emgVars, cycleLock, fn, funding>>

\* Orchestrator.open_position 457: the manager call for the admitted pair.
CycOpen(l, priced, sized) ==
    /\ cyc[l].pc = "admitted"
    /\ OpenBegin(LoopThread(l), Head(cyc[l].opps).base, priced, sized)

\* _autonomous_cycle 300 and _run_loop 166-168: the cycle returns, the lock
\* is released, the loop sleeps.
CycEnd(cy) == [cy EXCEPT !.pc = "sleeping"]

\* _check_margin_ratio 385-386: reading the ratio raised; logged.
CycMarginFail(l) ==
    /\ cyc[l].pc = "margin"
    /\ cyc' = [cyc EXCEPT ![l] = CycEnd(@)]
    /\ cycleLock' = NoThread
    /\ UNCHANGED <<mgrVars, pnlVars, emgVars, fn, funding>>

\* _check_margin_ratio 368-384: the ratio is read; at or above the critical
\* threshold the cycle calls EmergencyController.trigger and returns when it
\* returns, otherwise (alert or not) it goes on to the end of the cycle.
CycMargin(l, mm_rate) ==
    /\ cyc[l].pc = "margin"
    /\ IF IsMarginCritical(mm_rate)
       THEN IF AlreadyTriggered
            THEN /\ cyc' = [cyc EXCEPT ![l] = CycEnd([@ EXCEPT !.mm = mm_rate,
                                                              !.invoked = @ + 1])]
                 /\ cycleLock' = NoThread
                 /\ UNCHANGED emgVars
            ELSE /\ TriggerCall(TrigOf(l))
                 /\ cyc' = [cyc EXCEPT ![l] = [@ EXCEPT !.mm = mm_rate,
                                                        !.invoked = @ + 1,
                                                        !.pc = "emergency"]]
                 /\ cycleLock' = cycleLock
       ELSE /\ cyc' = [cyc EXCEPT ![l] = CycEnd([@ EXCEPT !.mm = mm_rate])]
            /\ cycleLock' = NoThread
            /\ UNCHANGED emgVars
    /\ UNCHANGED <<mgrVars, pnlVars, fn, funding>>

\* _check_margin_ratio 375-378: trigger() has returned; end of the cycle.
CycEmergencyDone(l) ==
    /\ cyc[l].pc = "emergency" /\ trig[TrigOf(l)].pc = "returned"
    /\ cyc' = [cyc EXCEPT ![l] = CycEnd(@)]
    /\ cycleLock' = NoThread
    /\ UNCHANGED <<mgrVars, pnlVars, emgVars, fn, funding>>

\* _run_loop 168: the scan interval is over.
CycWake(l) ==
    /\ cyc[l].pc = "sleeping"
    /\ cyc' = [cyc EXCEPT ![l] = TopCyc]
    /\ UNCHANGED <<mgrVars, pnlVars, emgVars, cycleLock, fn, funding>>

\* restart 597-601: the bot is stopped; restart() awaits the funding monitor.
RestartBegin(l) ==
    /\ cyc[l].pc = "off" /\ ~running
    /\ cyc' = [cyc EXCEPT ![l].pc = "restarting"]
    /\ UNCHANGED <<mgrVars, pnlVars, emgVars, cycleLock, fn, funding>>

\* restart 602-605: _running = True and a new task runs _run_loop.
RestartSpawn(l) ==
    /\ cyc[l].pc = "restarting"
    /\ cyc' = [cyc EXCEPT ![l].pc = "top"]
    /\ running' = TRUE
    /\ UNCHANGED <<mgrVars, pnlVars, triggered, trig, task, cycleLock, fn, funding>>

\* The Orchestrator loop: the task start() awaits and the task a restart()
\* creates after a stop, over the PositionManager and the
\* EmergencyController.  Every trade comes from a cycle.
CycThreads == {LoopThread(l) : l \in LoopIds} \cup {TrigThread(i) : i \in TrigIds}
                \cup {TaskThread(p) : p \in PosIds}

NextCyc ==
    \/ \E l \in LoopIds, has_rates \in BOOLEAN, opportunities \in OppLists :
          CycStart(l, has_rates, opportunities)
    \/ \E l \in LoopIds : CycExit(l)
    \/ \E l \in LoopIds, rate \in FundingRates : CycKeep(l, rate)
    \/ \E l \in LoopIds, rate \in FundingRates : CycClose(l, rate)
    \/ \E l \in LoopIds : CycConsider(l)
    \/ \E l \in LoopIds : CycPrepFail(l)
    \/ \E l \in LoopIds, priced \in BOOLEAN, sized \in {NoQty, ReqQty} :
          CycOpen(l, priced, sized)
    \/ \E l \in LoopIds : CycMarginFail(l)
    \/ \E l \in LoopIds, mm_rate \in MarginRates : CycMargin(l, mm_rate)
    \/ \E l \in LoopIds : CycEmergencyDone(l)
    \/ \E l \in LoopIds : CycWake(l)
    \/ \E l \in LoopIds : RestartBegin(l)
    \/ \E l \in LoopIds : RestartSpawn(l)
    \/ \E t \in CycThreads, leg \in {"spot", "perp"}, r \in FullResults : LegFill(t, leg, r)
    \/ \E t \in CycThreads, leg \in {"spot", "perp"} : LegRaise(t, leg)
    \/ \E t \in CycThreads : OpenTimeout(t)
    \/ \E t \in CycThreads : OpenPartialFailure(t)
    \/ \E t \in CycThreads : OpenValidate(t)
    \/ \E t \in CycThreads \ {LoopThread(l) : l \in LoopIds}, pid \in PosIds :
          CloseBegin(t, pid)
    \/ \E t \in CycThreads : CloseTimeout(t)
    \/ \E t \in CycThreads : CloseLegFailure(t)
    \/ \E t \in CycThreads : CloseDone(t)
    \/ \E p \in PosIds : TaskWake(p)
    \/ \E i \in TrigIds : TrigCollect(i)

SpecCyc == Init /\ [][NextCyc]_vars

\* ------------------------------------------------------- PositionSizer
\* The sizer computes in decimal.Decimal under the default context: every
\* division is rounded to 28 significant digits, half to even.  A Decimal
\* x >= 0 is kept as its integer part x.i and its fractional digits x.f.
\* Prices, steps, minimums and maximums are whole numbers.
DecimalPrec == 28

Dec(i, f) == [i |-> i, f |-> f]
Whole(n) == Dec(n, <<>>)
Nines(n) == [k \in 1..n |-> 9]
DigitAt(f, k) == IF k <= Len(f) THEN f[k] ELSE 0

RECURSIVE NumDigits(_)
NumDigits(n) == IF n = 0 THEN 0 ELSE 1 + NumDigits(n \div 10)

\* Long division of x by the whole number p: the first n fractional digits
\* of the exact quotient and the remainder left after them.  k is the next
\* digit position, r the running remainder, d the digits so far.
RECURSIVE QuotLoop(_, _, _, _, _, _)
QuotLoop(x, p, n, k, r, d) ==
    IF k > n
    THEN [d |-> d, r |-> r]
    ELSE QuotLoop(x, p, n, k + 1, (r * 10 + DigitAt(x.f, k)) % p,
                  Append(d, (r * 10 + DigitAt(x.f, k)) \div p))
QuotDigits(x, p, n) == QuotLoop(x, p, n, 1, x.i % p, <<>>)

RECURSIVE LeadingZeros(_)
LeadingZeros(d) ==
    IF d = <<>> \/ Head(d) # 0 THEN 0 ELSE 1 + LeadingZeros(Tail(d))

\* digits d plus one unit in the last place: the new digits and the carry out
RECURSIVE Increment(_)
Increment(d) ==
    IF d = <<>>
    THEN [d |-> <<>>, carry |-> 1]
    ELSE LET n == Len(d)
         IN  IF d[n] < 9
             THEN [d |-> [d EXCEPT ![n] = @ + 1], carry |-> 0]
             ELSE LET rest == Increment(SubSeq(d, 1, n - 1))
                  IN  [d |-> Append(rest.d, 0), carry |-> rest.carry]

\* Decimal.__truediv__ by a whole number under the default context: the
\* exact quotient rounded to DecimalPrec significant digits, half to even.
DecDiv(x, p) ==
    LET qi == x.i \div p
        all == QuotDigits(x, p, 2 * DecimalPrec + 2).d
        kept == IF qi > 0 THEN DecimalPrec - NumDigits(qi)
                ELSE DecimalPrec + LeadingZeros(all)
        q == QuotDigits(x, p, kept + 1)
        next == q.d[kept + 1]
        sticky == q.r # 0 \/ \E k \in (kept + 2)..Len(x.f) : x.f[k] # 0
        lastKept == IF kept > 0 THEN q.d[kept] ELSE qi % 10
        up == next > 5 \/ (next = 5 /\ (sticky \/ lastKept % 2 = 1))
        f == SubSeq(q.d, 1, kept)
    IN  IF up
        THEN Dec(qi + Increment(f).carry, Increment(f).d)
        ELSE Dec(qi, f)

\* x <= y on Decimals
DecLeq(x, y) ==
    \/ x.i < y.i
    \/ /\ x.i = y.i
       /\ \A k \in 1..(Len(x.f) + Len(y.f)) :
             DigitAt(x.f, k) > DigitAt(y.f, k)
                => \E j \in 1..(k - 1) : DigitAt(x.f, j) < DigitAt(y.f, j)
\* min(a, b)
DecMin(a, b) == IF DecLeq(a, b) THEN a ELSE b

\* exchange/types.py round_to_step: (value // step) * step; for a whole
\* step the floor division is that of the integer part.
RoundToStep(value, step) == (value.i \div step) * step

\* exchange/types.py InstrumentInfo, the fields the sizer reads and max_qty
InstrumentInfo(qty_step, min_qty, max_qty, min_notional) ==
    [qty_step |-> qty_step, min_qty |-> min_qty, max_qty |-> max_qty,
     min_notional |-> min_notional]

\* sizing.py 57-70
CalculateQuantity(price, available_balance, instrument) ==
    LET max_by_config == DecDiv(Whole(MaxPositionSizeUsd), price)
        max_by_balance == DecDiv(available_balance, price)
        raw_qty == DecMin(max_by_config, max_by_balance)
        rounded_qty == RoundToStep(raw_qty, instrument.qty_step)
        notional == rounded_qty * price
    IN  IF rounded_qty < instrument.min_qty THEN NoQty
        ELSE IF notional < instrument.min_notional THEN NoQty
        ELSE rounded_qty

\* sizing.py 94-113
CalculateMatchingQuantity(price, available_balance, spot_instrument, perp_instrument) ==
    LET coarser_step == Max(spot_instrument.qty_step, perp_instrument.qty_step)
        higher_min_qty == Max(spot_instrument.min_qty, perp_instrument.min_qty)
        higher_min_notional ==
            Max(spot_instrument.min_notional, perp_instrument.min_notional)
        max_by_config == DecDiv(Whole(MaxPositionSizeUsd), price)
        max_by_balance == DecDiv(available_balance, price)
        raw_qty == DecMin(max_by_config, max_by_balance)
        rounded_qty == RoundToStep(raw_qty, coarser_step)
        notional == rounded_qty * price
    IN  IF rounded_qty < higher_min_qty THEN NoQty
        ELSE IF notional < higher_min_notional THEN NoQty
        ELSE rounded_qty

\* The sizer on its own.  Balances: whole amounts below, at and above the
\* configured maximum, and amounts that fall short of a whole amount by
\* 10^-1, 10^-27, 10^-28 and 10^-29.
SizerPrices == {1, 2, 3}
SizerBalances ==
    {Whole(n) : n \in {1, 6, 7, MaxPositionSizeUsd, MaxPositionSizeUsd + 1}}
      \cup {Dec(n, Nines(k)) : n \in {0, 5, 6, MaxPositionSizeUsd - 1},
                               k \in {1, DecimalPrec - 1, DecimalPrec, DecimalPrec + 1}}
Instruments ==
    {InstrumentInfo(qty_step, min_qty, max_qty, min_notional) :
        qty_step \in {1, 2, 3}, min_qty \in {1, 2},
        max_qty \in {2, MaxPositionSizeUsd}, min_notional \in {0, 5}}

InitSizer ==
    /\ positions = <<>>
    /\ lock = NoThread
    /\ call = [t \in Threads |-> IdleCall]
    /\ nextId = 1
    /\ pnlOpen = {}
    /\ pnlClosed = {}
    /\ triggered = FALSE
    /\ trig = [i \in TrigIds |-> IdleTrig]
    /\ task = [p \in PosIds |-> IdleTask]
    /\ running = TRUE
    /\ last = NoLast
    /\ cycleLock = NoThread
    /\ cyc = [n \in LoopIds |-> IF n = 0 THEN TopCyc ELSE OffCyc]
    /\ funding = NoFunding
    /\ \E price \in SizerPrices, balance \in SizerBalances :
          \/ \E instrument \in Instruments :
                fn = [name |-> "calculate_quantity", price |-> price,
                      available_balance |-> balance, instrument |-> instrument,
                      done |-> FALSE, out |-> NoQty]
          \/ \E spot_instrument \in Instruments, perp_instrument \in Instruments :
                fn = [name |-> "calculate_matching_quantity", price |-> price,
                      available_balance |-> balance,
                      spot_instrument |-> spot_instrument,
                      perp_instrument |-> perp_instrument,
                      done |-> FALSE, out |-> NoQty]

SizeSingle ==
    /\ fn.name = "calculate_quantity" /\ ~fn.done
    /\ fn' = [fn EXCEPT !.done = TRUE,
                 !.out = CalculateQuantity(fn.price, fn.available_balance,
                                           fn.instrument)]
    /\ UNCHANGED <<mgrVars, pnlVars, emgVars, cycVars, funding>>

SizeMatching ==
    /\ fn.name = "calculate_matching_quantity" /\ ~fn.done
    /\ fn' = [fn EXCEPT !.done = TRUE,
                 !.out = CalculateMatchingQuantity(fn.price, fn.available_balance,
                            fn.spot_instrument, fn.perp_instrument)]
    /\ UNCHANGED <<mgrVars, pnlVars, emgVars, cycVars, funding>>

NextSizer == SizeSingle \/ SizeMatching

SpecSizer == InitSizer /\ [][NextSizer]_vars

\* ------------------------------------------------ DeltaValidator.validate
\* quantities handed to validate(), in hundredths of a unit
DeltaQtys == {0, 1, 2, 49, 50, 51, 96, 97, 98, 99, 100}

\* models.DeltaStatus: drift_pct as the fraction drift_num / drift_den
DeltaStatus(spot_qty, perp_qty, drift_num, drift_den, is_within_tolerance) ==
    [spot_qty |-> spot_qty, perp_qty |-> perp_qty, drift_num |-> drift_num,
     drift_den |-> drift_den, is_within_tolerance |-> is_within_tolerance]

\* delta_validator.py 49-65
Validate(spot_qty, perp_qty) ==
    DeltaStatus(spot_qty, perp_qty, DriftNum(spot_qty, perp_qty),
                DriftDen(spot_qty, perp_qty), IsWithinTolerance(spot_qty, perp_qty))

InitDelta ==
    /\ positions = <<>>
    /\ lock = NoThread
    /\ call = [t \in Threads |-> IdleCall]
    /\ nextId = 1
    /\ pnlOpen = {}
    /\ pnlClosed = {}
    /\ triggered = FALSE
    /\ trig = [i \in TrigIds |-> IdleTrig]
    /\ task = [p \in PosIds |-> IdleTask]
    /\ running = TRUE
    /\ last = NoLast
    /\ cycleLock = NoThread
    /\ cyc = [n \in LoopIds |-> IF n = 0 THEN TopCyc ELSE OffCyc]
    /\ funding = NoFunding
    /\ \E spot_qty \in DeltaQtys, perp_qty \in DeltaQtys :
          fn = [name |-> "validate", spot_qty |-> spot_qty, perp_qty |-> perp_qty,
                done |-> FALSE, out |-> NoOut]

DeltaCheck ==
    /\ fn.name = "validate" /\ ~fn.done
    /\ fn' = [fn EXCEPT !.done = TRUE, !.out = Validate(fn.spot_qty, fn.perp_qty)]
    /\ UNCHANGED <<mgrVars, pnlVars, emgVars, cycVars, funding>>

SpecDelta == InitDelta /\ [][DeltaCheck]_vars

\* ------------------------------------- Orchestrator: funding settlement
\* orchestrator.py 52: _FUNDING_SETTLEMENT_INTERVAL, in hours
FundingSettlementInterval == 8

\* _check_funding_settlement 407-427 on frame f with the open positions
CheckFundingSettlement(f, open_positions) ==
    IF f.now - f.last_funding_check >= FundingSettlementInterval
    THEN [f EXCEPT !.settled = IF open_positions # <<>> THEN Append(@, f.now) ELSE @,
                   !.last_funding_check = f.now]
    ELSE f

\* registries a cycle may leave behind
FundRegistries == {<<>>, <<Position(1, "BTC", ReqQty, "ord", "ord")>>}

\* time.time() advances by an hour; any step of the loop may come before or
\* after it
FundTick ==
    /\ funding.now < MaxTime
    /\ funding' = [funding EXCEPT !.now = @ + 1]
    /\ UNCHANGED <<mgrVars, pnlVars, emgVars, cycVars, fn>>

\* _run_loop 163-166: the while test and the call of _autonomous_cycle
FundCycleBegin ==
    /\ funding.pc = "top" /\ running
    /\ funding' = [funding EXCEPT !.pc = "cycle"]
    /\ UNCHANGED <<mgrVars, pnlVars, emgVars, cycVars, fn>>

\* _run_loop 166-168: _autonomous_cycle returns, having left the registry as
\* reg; _check_funding_settlement runs and the loop sleeps scan_interval
FundCycleReturn(reg) ==
    /\ funding.pc = "cycle"
    /\ positions' = reg
    /\ funding' = CheckFundingSettlement([funding EXCEPT !.pc = "sleeping"], reg)
    /\ UNCHANGED <<lock, call, nextId, last, pnlVars, emgVars, cycVars, fn>>

\* _run_loop 171-173: _autonomous_cycle raises; the error is logged and the
\* loop sleeps 10 seconds
FundCycleRaise ==
    /\ funding.pc = "cycle"
    /\ funding' = [funding EXCEPT !.pc = "sleeping"]
    /\ UNCHANGED <<mgrVars, pnlVars, emgVars, cycVars, fn>>

\* _run_loop 168, 173: the sleep is over
FundWake ==
    /\ funding.pc = "sleeping"
    /\ funding' = [funding EXCEPT !.pc = "top"]
    /\ UNCHANGED <<mgrVars, pnlVars, emgVars, cycVars, fn>>

NextFund ==
    \/ FundTick
    \/ FundCycleBegin
    \/ \E reg \in FundRegistries : FundCycleReturn(reg)
    \/ FundCycleRaise
    \/ FundWake

SpecFund == Init /\ [][NextFund]_vars

\* ------------------------------------------------- Executor backends
\* The Orchestrator wrappers over the PositionManager, run one operation at a
\* time on two systems that differ only in the Executor installed.
Backends == {"paper", "live"}

\* Executor.place_order: the OrderResult of a backend for a fill; the paper
\* backend marks it is_simulated (paper_executor.py 178, live_executor.py 94)
PlaceOrder(backend, fill) ==
    [order_id |-> fill.order_id, filled_qty |-> fill.filled_qty,
     is_simulated |-> (backend = "paper")]

\* variant: simulated fills are registered without the delta check
OpenCommitsSimulated(spot_result, perp_result) ==
    \/ spot_result.is_simulated
    \/ IsWithinTolerance(spot_result.filled_qty, perp_result.filled_qty)
\* manager.py 196-216: the delta check on the two results
OpenCommits(spot_result, perp_result) ==
    IsWithinTolerance(spot_result.filled_qty, perp_result.filled_qty)

\* one system: the registry, the id counter and the ledger notifications
\* (record_open / record_close) in the order they were made
NewSys == [positions |-> <<>>, nextId |-> 1, notes |-> <<>>]

\* Orchestrator.open_position 429-475 over PositionManager.open_position
\* 110-247, run to its end.  fault: "none", "leg" (a place_order raises),
\* "timeout" (the gather outlives the order timeout).
OrchOpen(backend, sys, op) ==
    IF ~op.priced \/ op.sized = NoQty \/ op.fault # "none"
    THEN sys
    ELSE LET spot_result == PlaceOrder(backend, op.spot)
             perp_result == PlaceOrder(backend, op.perp)
         IN  IF ~OpenCommits(spot_result, perp_result)
             THEN sys
             ELSE [sys EXCEPT
                     !.positions = Put(@, Position(sys.nextId, op.base,
                                           spot_result.filled_qty,
                                           spot_result.order_id, perp_result.order_id)),
                     !.nextId = @ + 1,
                     !.notes = Append(@, <<"record_open", sys.nextId>>)]

\* Orchestrator.close_position 477-502 over PositionManager.close_position
\* 266-307, run to its end.
OrchClose(backend, sys, op) ==
    IF ~HasId(sys.positions, op.pid) THEN sys
    ELSE IF op.fault = "timeout"
    THEN [sys EXCEPT !.positions = PutBack(Pop(@, op.pid), GetPos(@, op.pid))]
    ELSE IF op.fault = "leg"
    THEN [sys EXCEPT !.positions = Pop(@, op.pid)]
    ELSE [sys EXCEPT !.positions = Pop(@, op.pid),
                     !.notes = Append(@, <<"record_close", op.pid>>)]

Faults == {"none", "leg", "timeout"}
SwapOpens ==
    [kind : {"open"}, base : Bases, priced : BOOLEAN, sized : {NoQty, ReqQty},
     spot : MgrResults, perp : MgrResults, fault : Faults]
SwapCloses == [kind : {"close"}, pid : PosIds, fault : Faults]

InitSwap ==
    /\ positions = <<>>
    /\ lock = NoThread
    /\ call = [t \in Threads |-> IdleCall]
    /\ nextId = 1
    /\ pnlOpen = {}
    /\ pnlClosed = {}
    /\ triggered = FALSE
    /\ trig = [i \in TrigIds |-> IdleTrig]
    /\ task = [p \in PosIds |-> IdleTask]
    /\ running = TRUE
    /\ last = NoLast
    /\ cycleLock = NoThread
    /\ cyc = [n \in LoopIds |-> IF n = 0 THEN TopCyc ELSE OffCyc]
    /\ funding = NoFunding
    /\ fn = [name |-> "swap", sys |-> [b \in Backends |-> NewSys]]

\* the same open_position call on both systems
SwapOpen(op) ==
    /\ fn.name = "swap"
    /\ \A b \in Backends : fn.sys[b].nextId <= MaxPositions
    /\ fn' = [fn EXCEPT !.sys = [b \in Backends |-> OrchOpen(b, fn.sys[b], op)]]
    /\ UNCHANGED <<mgrVars, pnlVars, emgVars, cycVars, funding>>

\* the same close_position call on both systems
SwapClose(op) ==
    /\ fn.name = "swap"
    /\ fn' = [fn EXCEPT !.sys = [b \in Backends |-> OrchClose(b, fn.sys[b], op)]]
    /\ UNCHANGED <<mgrVars, pnlVars, emgVars, cycVars, funding>>

NextSwap ==
    \/ \E op \in SwapOpens : SwapOpen(op)
    \/ \E op \in SwapCloses : SwapClose(op)

SpecSwap == InitSwap /\ [][NextSwap]_vars

\* --------------------------------- Orchestrator: shutdown during a cycle
\* the trigger / stop frame the signal handlers' task uses (the loop task's
\* own margin check uses TrigOf(0))
SignalFrame == 2

\* Orchestrator.stop 139-155, run as the task the SIGINT/SIGTERM handler
\* creates (main.py 247-249) or from the dashboard (actions.py 27):
\* _running = False, then the snapshot of the registry is closed one by one.
Stop(i) ==
    /\ trig[i].pc = "idle"
    /\ StopTakesNoLock
    /\ trig' = [trig EXCEPT ![i] = StopBegin(@, positions)]
    /\ running' = FALSE
    /\ UNCHANGED <<mgrVars, pnlVars, triggered, task, cycVars, fn, funding>>

\* accountMMRate values read in these runs: just below and at the critical
\* threshold
ShutMarginRates == {MarginCriticalThreshold - 1, MarginCriticalThreshold}

\* The loop task of start() with one shutdown signal arriving at any moment:
\* SIGUSR1 (emergency trigger) or SIGINT/SIGTERM (graceful stop).
ShutThreads == {LoopThread(0)} \cup {TrigThread(i) : i \in TrigIds}
                 \cup {TaskThread(p) : p \in PosIds}

NextShut ==
    \/ \E has_rates \in BOOLEAN, opportunities \in OppLists :
          CycStart(0, has_rates, opportunities)
    \/ CycExit(0)
    \/ \E rate \in FundingRates : CycKeep(0, rate)
    \/ \E rate \in FundingRates : CycClose(0, rate)
    \/ CycConsider(0)
    \/ CycPrepFail(0)
    \/ \E priced \in BOOLEAN, sized \in {NoQty, ReqQty} : CycOpen(0, priced, sized)
    \/ CycMarginFail(0)
    \/ \E mm_rate \in ShutMarginRates : CycMargin(0, mm_rate)
    \/ CycEmergencyDone(0)
    \/ CycWake(0)
    \/ Trigger(SignalFrame)
    \/ Stop(SignalFrame)
    \/ \E t \in ShutThreads, leg \in {"spot", "perp"}, r \in FullResults : LegFill(t, leg, r)
    \/ \E t \in ShutThreads, leg \in {"spot", "perp"} : LegRaise(t, leg)
    \/ \E t \in ShutThreads : OpenTimeout(t)
    \/ \E t \in ShutThreads : OpenPartialFailure(t)
    \/ \E t \in ShutThreads : OpenValidate(t)
    \/ \E t \in ShutThreads \ {LoopThread(0)}, pid \in PosIds : CloseBegin(t, pid)
    \/ \E t \in ShutThreads : CloseTimeout(t)
    \/ \E t \in ShutThreads : CloseLegFailure(t)
    \/ \E t \in ShutThreads : CloseDone(t)
    \/ \E p \in PosIds : TaskWake(p)
    \/ \E i \in TrigIds : TrigCollect(i)

SpecShut == Init /\ [][NextShut]_vars

\* ------------------------------------------ PositionManager: progress
\* What the event loop itself guarantees once a call holds the lock: the
\* wait_for timer of the initial legs expires (154-160, 285-291) and a
\* handler runs when the gather has a result.  Nothing makes the executor
\* answer: a place_order may never complete, so the leg results and the end
\* of _close_legs, which awaits its gather without wait_for (397-400), are
\* left without fairness.
ManagerProgress ==
    \A t \in MgrThreads :
        /\ WF_vars(OpenTimeout(t))
        /\ WF_vars(OpenPartialFailure(t))
        /\ WF_vars(OpenValidate(t))
        /\ WF_vars(CloseTimeout(t))
        /\ WF_vars(CloseLegFailure(t))
        /\ WF_vars(CloseDone(t))

SpecLive == Init /\ [][Next]_vars /\ ManagerProgress

\* --------------------------------- PositionManager: exposure of a position
\* quantities the two opening legs may fill: nothing, or up to a tenth short
\* of a request of 100
NetFills == {0} \cup (90..100)

\* what one position leaves at the exchange: stage "filled" (both opening
\* legs answered), "open" (registered), "rejected" (drift, unwound) or
\* "closed" (both closing orders filled at the quantity they asked for);
\* spot is the base held, perp the base sold short.
InitNet ==
    /\ positions = <<>>
    /\ lock = NoThread
    /\ call = [t \in Threads |-> IdleCall]
    /\ nextId = 1
    /\ pnlOpen = {}
    /\ pnlClosed = {}
    /\ triggered = FALSE
    /\ trig = [i \in TrigIds |-> IdleTrig]
    /\ task = [p \in PosIds |-> IdleTask]
    /\ running = TRUE
    /\ last = NoLast
    /\ cycleLock = NoThread
    /\ cyc = [n \in LoopIds |-> IF n = 0 THEN TopCyc ELSE OffCyc]
    /\ funding = NoFunding
    /\ \E spot_qty \in NetFills, perp_qty \in NetFills :
          fn = [name |-> "net", stage |-> "filled",
                spot_result |-> OrderResult("ord", spot_qty),
                perp_result |-> OrderResult("ord", perp_qty),
                position |-> NoPosition, spot |-> spot_qty, perp |-> perp_qty]

\* open_position 196-234 on the two results: the delta check, then the
\* Position that is registered.
NetOpen ==
    /\ fn.name = "net" /\ fn.stage = "filled"
    /\ fn' = IF IsWithinTolerance(fn.spot_result.filled_qty, fn.perp_result.filled_qty)
             THEN [fn EXCEPT !.stage = "open",
                             !.position = NewPosition(1, [IdleCall EXCEPT !.base = "BTC"],
                                                      fn.spot_result, fn.perp_result)]
             ELSE [fn EXCEPT !.stage = "rejected"]
    /\ UNCHANGED <<mgrVars, pnlVars, emgVars, cycVars, funding>>

\* close_position 266-307 with both closing orders filled as requested: the
\* spot SELL reduces the base held, the perp BUY the base sold short.
NetClose ==
    /\ fn.name = "net" /\ fn.stage = "open"
    /\ LET orders == CloseOrders(fn.position)
       IN  fn' = [fn EXCEPT !.stage = "closed",
                            !.spot = @ - orders[1].quantity,
                            !.perp = @ - orders[2].quantity]
    /\ UNCHANGED <<mgrVars, pnlVars, emgVars, cycVars, funding>>

NextNet == NetOpen \/ NetClose

SpecNet == InitNet /\ [][NextNet]_vars

\* ------------------------------------------ Orchestrator: progress
\* What the event loop guarantees to an emergency stop: the wait_for timer
\* of a close expires, the handlers of close_position run once the gather
\* has a result, a backoff sleep ends, the gather over the close tasks
\* returns when all have settled, and a caller waiting for the manager lock
\* gets it if the lock stays free (asyncio.Lock wakes a waiter on release).
\* Executor answers are left without fairness.
CycleProgress ==
    /\ \A t \in CycThreads :
          /\ WF_vars(CloseTimeout(t))
          /\ WF_vars(CloseLegFailure(t))
          /\ WF_vars(CloseDone(t))
    /\ \A t \in CycThreads \ {LoopThread(l) : l \in LoopIds} :
          WF_vars(\E pid \in PosIds : CloseBegin(t, pid))
    /\ \A p \in PosIds : WF_vars(TaskWake(p))
    /\ \A i \in TrigIds : WF_vars(TrigCollect(i))
    /\ \A l \in LoopIds : WF_vars(CycEmergencyDone(l))

SpecCycLive == Init /\ [][NextCyc]_vars /\ CycleProgress

\* ------------------------------------------ EmergencyController.reset
\* reset 168-170: self._triggered = False.  An operator action, taken here
\* between emergency stops: no trigger() call is in progress.
Reset ==
    /\ triggered
    /\ \A i \in TrigIds : trig[i].pc \in {"idle", "returned"}
    /\ triggered' = FALSE
    /\ UNCHANGED <<mgrVars, pnlVars, trig, task, running, cycVars, fn, funding>>

NextReset == NextEmg \/ Reset

SpecReset == Init /\ [][NextReset]_vars

\* ================================================================ claims
Range(q) == {q[k] : k \in DOMAIN q}
InCritical(t) == call[t].phase \in {"executing", "unwinding"}
\* the step in which thread t leaves its manager call
Leaves(t) == call[t].phase # "idle" /\ call'[t].phase = "idle"

\* C1: a close_position call that does not return both leg results (a leg
\* raised, or the pair timed out) leaves the position in the registry.
C1_FailedCloseKeepsPosition ==
    [][\A t \in Threads :
          (call[t].op = "close" /\ Leaves(t) /\ ~GatherDone(call[t]))
              => HasId(positions', call[t].pid)]_vars

\* C2: when one leg of an open raised while the other had returned a fill,
\* the call submits a reversing market order for the filled leg (opposite
\* side, same symbol and category, the filled quantity) before it raises
\* the hedge error, and registers no position.
OneFilledOneRaised(c) ==
    \/ c.spot.st = "filled" /\ c.perp.st = "raised"
    \/ c.perp.st = "filled" /\ c.spot.st = "raised"
ReversalOf(c) ==
    IF c.spot.st = "filled"
    THEN [symbol |-> SpotSym(c.base), side |-> "sell",
          quantity |-> c.spot.res.filled_qty, category |-> "spot"]
    ELSE [symbol |-> PerpSym(c.base), side |-> "buy",
          quantity |-> c.perp.res.filled_qty, category |-> "linear"]
C2_ReversalBeforeHedgeError ==
    [][\A t \in MgrThreads :
          (call[t].op = "open" /\ Leaves(t) /\ OneFilledOneRaised(call[t]))
              => /\ last'.outcome = "hedge_error"
                 /\ last'.sent = call[t].sent \o <<ReversalOf(call[t])>>
                 /\ positions' = positions]_vars

\* C3: every position in the registry has a non-empty spot order id, a
\* non-empty perp order id and a strictly positive quantity.
C3_PositionsWellFormed ==
    \A k \in DOMAIN positions :
        /\ positions[k].spot_order_id # ""
        /\ positions[k].perp_order_id # ""
        /\ positions[k].quantity > 0

\* C4: when both legs of an open fill but out of tolerance, the call submits
\* a spot SELL for the spot fill and a perp BUY for the perp fill and then
\* raises delta-drift-exceeded; from the start of the call to its end the
\* registry does not change.
DriftCase(c) ==
    /\ c.op = "open" /\ c.phase = "executing" /\ GatherDone(c)
    /\ Abs(c.spot.res.filled_qty - c.perp.res.filled_qty) * TolDen
          > TolNum * Max(c.spot.res.filled_qty, c.perp.res.filled_qty)
UnwindOf(c) ==
    <<[symbol |-> SpotSym(c.base), side |-> "sell",
       quantity |-> c.spot.res.filled_qty, category |-> "spot"],
      [symbol |-> PerpSym(c.base), side |-> "buy",
       quantity |-> c.perp.res.filled_qty, category |-> "linear"]>>
C4_DriftUnwindsAndNeverRegisters ==
    [][\A t \in MgrThreads :
          /\ (DriftCase(call[t]) /\ call'[t] # call[t])
                => /\ call'[t].phase = "unwinding"
                   /\ call'[t].sent = call[t].sent \o UnwindOf(call[t])
                   /\ positions' = positions
          /\ (call[t].phase = "unwinding" /\ call'[t] # call[t])
                => /\ Leaves(t)
                   /\ last'.outcome = "delta_drift_exceeded"
                   /\ last'.sent = call[t].sent
                   /\ positions' = positions
          /\ (call[t].phase = "idle" /\ call'[t].op = "open")
                => positions' = positions
          /\ (call[t].op = "open" /\ InCritical(t)
                /\ ~(GatherDone(call[t]) /\ ~DriftCase(call[t])))
                => positions' = positions]_vars
C4_Witness ==
    /\ last.op = "open" /\ last.outcome = "delta_drift_exceeded"
    /\ Len(last.sent) = 4
    /\ last.sent[3].side = "sell" /\ last.sent[3].quantity = ReqQty
    /\ last.sent[4].side = "buy" /\ last.sent[4].quantity = ReqQty - 1
    /\ positions = <<>>

\* C5: at most one open_position or close_position call is inside the
\* manager's critical section, and the registry changes only in a step of
\* the call that holds, takes or releases the lock.
C5_MutualExclusion ==
    /\ [](\A t1, t2 \in Threads :
             (InCritical(t1) /\ InCritical(t2)) => t1 = t2)
    /\ [](\A t \in Threads : InCritical(t) => lock = t)
    /\ [][positions' # positions =>
             \E t \in Threads :
                 /\ lock = t \/ lock' = t
                 /\ call'[t] # call[t]
                 /\ \A u \in Threads \ {t} : ~InCritical(u)]_vars
C5_Witness ==
    /\ lock = TaskThread(1) /\ InCritical(TaskThread(1))
    /\ task[2].st = "running" /\ call[TaskThread(2)].phase = "idle"
    /\ HasId(positions, 2)

\* C6: when the two closing legs time out the call fails with hedge-timeout
\* and the position is back in the registry with the fields it had.
C6_TimeoutKeepsPosition ==
    [][\A t \in MgrThreads :
          /\ (call[t].phase = "idle" /\ call'[t].op = "close"
                /\ call'[t].phase = "executing")
                => /\ HasId(positions, call'[t].pid)
                   /\ call'[t].position = GetPos(positions, call'[t].pid)
          /\ (call[t].op = "close" /\ Leaves(t)
                /\ ~GatherDone(call[t]) /\ ~GatherRaised(call[t]))
                => /\ last'.outcome = "hedge_timeout"
                   /\ HasId(positions', call[t].pid)
                   /\ GetPos(positions', call[t].pid) = call[t].position]_vars
C6_Witness ==
    /\ last.op = "close" /\ last.outcome = "hedge_timeout"
    /\ HasId(positions, last.pid)
    /\ lock = NoThread

\* C7: a trigger call made while the flag is set returns two empty lists,
\* starts no close task and does not invoke the stop callback; of two racing
\* trigger calls exactly one performs the close-all.
C7_SecondTriggerIsNoOp ==
    /\ [](\A i \in TrigIds : trig[i].noop =>
             /\ trig[i].pc = "returned"
             /\ trig[i].closed_ids = <<>> /\ trig[i].failed_ids = <<>>
             /\ trig[i].stops = 0 /\ trig[i].snapshot = <<>>
             /\ \A p \in PosIds : task[p].owner # i)
    /\ [](Cardinality({i \in TrigIds : trig[i].pc # "idle" /\ ~trig[i].noop}) <= 1)
    /\ []((\A i \in TrigIds : trig[i].pc # "idle") =>
             Cardinality({i \in TrigIds : ~trig[i].noop}) = 1)
    /\ [][\A i \in TrigIds :
             (triggered /\ trig[i].pc = "idle" /\ trig'[i] # trig[i])
                 => /\ trig'[i].noop
                    /\ task' = task /\ call' = call /\ running' = running
                    /\ positions' = positions]_vars
C7_Witness ==
    \E i, j \in TrigIds :
        /\ trig[i].noop /\ trig[i].pc = "returned"
        /\ ~trig[j].noop /\ trig[j].pc = "returned"
        /\ Len(trig[j].snapshot) = 2

\* C8: the trigger that performs the close-all invokes the stop callback
\* exactly once, and not before every close task of its snapshot has
\* settled; with an empty snapshot it invokes it once and starts no task.
SnapshotSettled(tr) ==
    \A k \in DOMAIN tr.snapshot : task[tr.snapshot[k]].st \in {"closed", "failed"}
C8_StopCallbackOnceAfterSettle ==
    \A i \in TrigIds : ~trig[i].noop =>
        /\ trig[i].pc \in {"idle", "gathering"} => trig[i].stops = 0
        /\ trig[i].pc \in {"stopping", "returned"} =>
              trig[i].stops = 1 /\ SnapshotSettled(trig[i])
        /\ (trig[i].pc = "returned" /\ trig[i].snapshot = <<>>) =>
              /\ trig[i].closed_ids = <<>> /\ trig[i].failed_ids = <<>>
              /\ \A p \in PosIds : task[p].owner # i
C8_Witness ==
    \E i \in TrigIds :
        /\ trig[i].pc = "returned" /\ trig[i].stops = 1
        /\ Len(trig[i].snapshot) = 2
        /\ Len(trig[i].failed_ids) = 1 /\ Len(trig[i].closed_ids) = 1

\* C9: a position whose close failed on attempts 1 and 2 and succeeded on
\* attempt 3 is reported in closed_ids and not in failed_ids, and the stop
\* callback has been invoked only with every position resolved.
C9_ThirdAttemptSuccessIsClosed ==
    \A i \in TrigIds, p \in PosIds :
        ( /\ trig[i].pc \in {"stopping", "returned"} /\ ~trig[i].noop
          /\ p \in Range(trig[i].snapshot)
          /\ task[p].hist = <<"fail", "fail", "ok">> )
        => /\ p \in Range(trig[i].closed_ids)
           /\ p \notin Range(trig[i].failed_ids)
           /\ trig[i].stops = 1
           /\ SnapshotSettled(trig[i])
C9_Witness ==
    \E i \in TrigIds, p \in PosIds :
        /\ trig[i].pc = "returned"
        /\ task[p].hist = <<"fail", "fail", "ok">>
        /\ p \in Range(trig[i].closed_ids)

\* C10: a close task makes at most max_retries attempts, one at a time; it
\* sleeps 1, 2, ... after failed attempts 1, 2, ..., not after the last one,
\* and after max_retries failures its position is reported in failed_ids.
C10_BoundedRetriesLinearBackoff ==
    \A p \in PosIds :
        LET tk == task[p]
            n == Len(tk.hist)
        IN  /\ n <= MaxRetries
            /\ \A k \in DOMAIN tk.slept : tk.slept[k] = k
            /\ \A k \in DOMAIN tk.hist : k < n => tk.hist[k] = "fail"
            /\ tk.st = "running" => n < MaxRetries /\ Len(tk.slept) = n
            /\ tk.st = "sleeping" =>
                  n < MaxRetries /\ Len(tk.slept) = n /\ tk.hist[n] = "fail"
            /\ tk.st = "closed" => Len(tk.slept) = n - 1 /\ tk.hist[n] = "ok"
            /\ tk.st = "failed" =>
                  n = MaxRetries /\ Len(tk.slept) = MaxRetries - 1
                     /\ tk.hist[n] = "fail"
            /\ call[TaskThread(p)].phase # "idle" => tk.st = "running"
            /\ \A i \in TrigIds :
                  ( /\ trig[i].pc \in {"stopping", "returned"} /\ ~trig[i].noop
                    /\ p \in Range(trig[i].snapshot) /\ tk.st = "failed" )
                  => p \in Range(trig[i].failed_ids)
C10_Witness ==
    \E i \in TrigIds, p \in PosIds :
        /\ trig[i].pc = "returned" /\ p \in Range(trig[i].failed_ids)
        /\ task[p].st = "failed" /\ task[p].slept = <<1, 2>>

\* C11: the emergency close tasks are independent.  A step in which the
\* task of one position records an attempt (its exhaustion included) changes
\* neither the frame nor the manager call of any other task; a task that is
\* still due an attempt can make it whatever the state of the others; and
\* once the outcomes are collected every snapshotted position is in exactly
\* one of closed_ids (its task returned) and failed_ids (its task raised).
C11_CloseTasksIndependent ==
    /\ [][\A p, q \in PosIds :
             (p # q /\ task[p].st = "running" /\ task'[p] # task[p])
                => /\ task'[q] = task[q]
                   /\ call'[TaskThread(q)] = call[TaskThread(q)]]_vars
    /\ [](\A q \in PosIds :
             /\ (task[q].st = "running" /\ call[TaskThread(q)].phase = "idle"
                   /\ lock = NoThread)
                   => ENABLED CloseBegin(TaskThread(q), q)
             /\ task[q].st = "sleeping" => ENABLED TaskWake(q))
    /\ [](\A i \in TrigIds :
             (trig[i].pc \in {"stopping", "returned"} /\ ~trig[i].noop) =>
                 \A p \in Range(trig[i].snapshot) :
                     /\ (p \in Range(trig[i].closed_ids)) # (p \in Range(trig[i].failed_ids))
                     /\ (p \in Range(trig[i].closed_ids)) = (task[p].st = "closed")
                     /\ (p \in Range(trig[i].failed_ids)) = (task[p].st = "failed")
                     /\ Len(trig[i].closed_ids) + Len(trig[i].failed_ids)
                           = Len(trig[i].snapshot))
C11_Witness ==
    /\ task[1].st = "failed" /\ Len(task[1].hist) = MaxRetries
    /\ task[2].st = "running" /\ task[2].hist = <<"fail">>
    /\ call[TaskThread(2)].phase = "executing" /\ lock = TaskThread(2)

\* C16: graceful stop() first sets the running flag to false and snapshots
\* the registry; it then closes the snapshot's positions through
\* PositionManager.close_position in snapshot order, one call at a time and
\* one call per position: whether a close returns or raises, the loop moves
\* to the next position, and stop() returns after the last one.
C16_GracefulStopClosesEachOnce ==
    [][\A i \in TrigIds :
          LET t == TrigThread(i)
              tr == trig[i]
          IN  /\ (tr.pc \notin {"stopping", "returned"}
                    /\ trig'[i].pc \in {"stopping", "returned"} /\ ~trig'[i].noop)
                    => /\ running' = FALSE
                       /\ trig'[i].queue = OpenIds(positions)
                       /\ trig'[i].pc = "stopping" <=> positions # <<>>
                       /\ call'[t] = IdleCall /\ positions' = positions
              /\ (call[t].phase = "idle" /\ call'[t].phase # "idle")
                    => /\ tr.pc = "stopping" /\ tr.queue # <<>>
                       /\ call'[t].op = "close" /\ call'[t].pid = Head(tr.queue)
                       /\ trig'[i] = tr
              /\ (tr.pc = "stopping" /\ trig'[i] # tr)
                    => /\ call'[t].phase = "idle"
                       /\ trig'[i] = [tr EXCEPT
                             !.queue = Tail(tr.queue),
                             !.pc = IF Len(tr.queue) > 1 THEN "stopping" ELSE "returned"]
              /\ (call[t].phase # "idle" /\ call'[t].phase = "idle")
                    => trig'[i].queue = Tail(tr.queue)
              /\ (tr.pc = "stopping" /\ call[t].phase # "idle")
                    => call[t].pid = Head(tr.queue)]_vars
C16_Witness ==
    \E i \in TrigIds :
        /\ trig[i].pc = "returned" /\ trig[i].stops = 1 /\ ~running
        /\ Len(trig[i].failed_ids) = 2
        /\ pnlClosed = {2} /\ HasId(positions, 1) /\ ~HasId(positions, 2)

\* C17: when both legs of an open return the same filled quantity the call
\* commits: the registry gains exactly one position, with that quantity and
\* the two order ids, and the call has handed the executor nothing but its
\* two opening orders (no unwind).
EqualFills(c) ==
    /\ c.op = "open" /\ c.phase = "executing" /\ GatherDone(c)
    /\ c.spot.res.filled_qty = c.perp.res.filled_qty
C17_EqualFillsCommit ==
    [][\A t \in MgrThreads :
          (EqualFills(call[t]) /\ call'[t] # call[t])
              => /\ TolNum >= 0
                 /\ positions' = Append(positions,
                       [id |-> nextId,
                        spot_symbol |-> SpotSym(call[t].base),
                        perp_symbol |-> PerpSym(call[t].base),
                        quantity |-> call[t].spot.res.filled_qty,
                        spot_order_id |-> call[t].spot.res.order_id,
                        perp_order_id |-> call[t].perp.res.order_id])
                 /\ Leaves(t)
                 /\ last' = [op |-> "open", outcome |-> "ok", pid |-> nextId,
                             sent |-> call[t].sent]
                 /\ Len(call[t].sent) = 2
                 /\ call[t].sent[1].side = "buy" /\ call[t].sent[2].side = "sell"]_vars
C17_Witness ==
    /\ last.op = "open" /\ last.outcome = "ok" /\ Len(last.sent) = 2
    /\ HasId(positions, last.pid)
    /\ GetPos(positions, last.pid).quantity = ReqQty - 1
    /\ GetPos(positions, last.pid).spot_order_id = "ord"

\* C18: when the timeout of the two-leg submission of an open expires, the
\* call fails with hedge-timeout having handed the executor only its two
\* opening orders (nothing cancelling or compensating, even for a leg that
\* had filled), and the registry is what it was when the call started.
OpenTimedOut(t) ==
    /\ call[t].op = "open" /\ call[t].phase = "executing"
    /\ ~GatherDone(call[t]) /\ ~GatherRaised(call[t])
    /\ Leaves(t)
SizePositive == fn.position_size_usd > 0
SizeWithinCap == fn.position_size_usd <= fn.max_position_size_per_pair
BelowPositionCap == Len(fn.current_positions) < fn.max_simultaneous_positions
SymbolNew ==
    \A k \in DOMAIN fn.current_positions :
        fn.current_positions[k].perp_symbol # fn.symbol
C14_CanOpenFirstFailingCheck ==
    (fn.name = "check_can_open" /\ fn.out # NoOut) =>
        /\ fn.out.allowed <=>
              (SizePositive /\ SizeWithinCap /\ BelowPositionCap /\ SymbolNew)
        /\ fn.out.allowed => fn.out.reason = ""
        /\ ~SizePositive => fn.out.reason = "Position size must be positive"
        /\ (SizePositive /\ ~SizeWithinCap)
              => fn.out.reason = "Exceeds max per-pair size"
        /\ (SizePositive /\ SizeWithinCap /\ ~BelowPositionCap)
              => fn.out.reason = "At max positions"
        /\ (SizePositive /\ SizeWithinCap /\ BelowPositionCap /\ ~SymbolNew)
              => fn.out.reason = "Already have position"
C14_Witness ==
    /\ fn.name = "check_can_open" /\ fn.out # NoOut
    /\ ~SizePositive /\ ~BelowPositionCap /\ ~SymbolNew
    /\ fn.out = [allowed |-> FALSE, reason |-> "Position size must be positive"]

\* C19: whenever calculate_quantity returns a quantity q, q * price is at
\* most min(max_position_size_usd, available_balance), and q is that
\* minimum divided by the price, truncated toward zero to a multiple of the
\* step.
SizerCap ==
    IF fn.available_balance.i < MaxPositionSizeUsd
    THEN fn.available_balance ELSE Whole(MaxPositionSizeUsd)
C19_SizerNeverExceedsCap ==
    (fn.name = "calculate_quantity" /\ fn.done /\ fn.out # NoQty) =>
        /\ DecLeq(Whole(fn.out * fn.price), SizerCap)
        /\ fn.out = ((SizerCap.i \div fn.price) \div fn.instrument.qty_step)
                       * fn.instrument.qty_step

\* C20: whenever calculate_matching_quantity returns a quantity q, q is a
\* whole multiple of the spot step and of the perp step, at least both
\* minimum quantities, at most both maximum quantities, and q * price is at
\* least both minimum notionals.
LegalFor(q, price, instrument) ==
    /\ q % instrument.qty_step = 0
    /\ q >= instrument.min_qty
    /\ q <= instrument.max_qty
    /\ q * price >= instrument.min_notional
C20_MatchingQuantityLegalOnBothLegs ==
    (fn.name = "calculate_matching_quantity" /\ fn.done /\ fn.out # NoQty) =>
        /\ LegalFor(fn.out, fn.price, fn.spot_instrument)
        /\ LegalFor(fn.out, fn.price, fn.perp_instrument)

\* the work a cycle may have under way: a manager call of a loop task, a
\* close task of an emergency stop, a trigger() that has not returned
CycleWorkPending ==
    \/ \E k \in LoopIds : call[LoopThread(k)].phase # "idle"
    \/ \E p \in PosIds : task[p].st \in {"running", "sleeping"}
    \/ \E i \in TrigIds : trig[i].pc \in {"gathering", "stopping"}

\* C12: autonomous cycles never overlap, whatever tasks run the loop: at most
\* one loop task is inside a cycle and it holds the cycle lock, no work of a
\* cycle is under way while no loop task is inside one, and a cycle begins
\* only in a state where no loop task is inside a cycle.
C12_CyclesNeverOverlap ==
    /\ [](\A k, l \in LoopIds : (InCycle(k) /\ InCycle(l)) => k = l)
    /\ [](\A l \in LoopIds : InCycle(l) <=> cycleLock = LoopThread(l))
    /\ []((\A l \in LoopIds : ~InCycle(l)) => ~CycleWorkPending)
    /\ [][\A l \in LoopIds :
            (cyc[l].pc = "top" /\ cyc'[l].pc \notin {"top", "done"}) =>
                /\ running /\ cycleLock = NoThread
                /\ \A k \in LoopIds : ~InCycle(k)
                /\ ~CycleWorkPending]_vars

\* a restarted loop task waits at the lock while the first loop task is still
\* inside its cycle, closing positions for an emergency stop
C12_Witness ==
    /\ running /\ cyc[1].pc = "top"
    /\ cyc[0].pc = "emergency" /\ trig[TrigOf(0)].pc = "stopping"
    /\ call[TrigThread(TrigOf(0))].phase # "idle"

\* the admission check denies the opportunity loop task l is considering
AdmissionDenied(l) ==
    /\ cyc[l].pc = "opening"
    /\ Head(cyc[l].opps).passes_filters
    /\ ~CheckCanOpen(PerpSym(Head(cyc[l].opps).base), MaxPositionSizeUsd, positions,
                     MaxPositionSizePerPair, MaxSimultaneousPositions).allowed

\* C13: when the admission check denies an opportunity, the step that handles
\* it submits no order and leaves the registry (and every manager call)
\* unchanged, the opportunity is dropped and the rest of the list is still
\* considered; no open call of the cycle is ever for a pair denied in it.
C13_DenialSubmitsNothingAndContinues ==
    /\ [][\A l \in LoopIds :
            (AdmissionDenied(l) /\ cyc'[l] # cyc[l]) =>
                /\ mgrVars' = mgrVars /\ pnlVars' = pnlVars
                /\ cyc'[l].denied = cyc[l].denied \cup {Head(cyc[l].opps).base}
                /\ cyc'[l].opps = Tail(cyc[l].opps)
                /\ cyc'[l].pc = IF Tail(cyc[l].opps) # <<>> THEN "opening" ELSE "margin"
                /\ cycleLock' = cycleLock]_vars
    /\ [](\A l \in LoopIds :
            /\ call[LoopThread(l)].op = "open" => call[LoopThread(l)].base \notin cyc[l].denied
            /\ cyc[l].pc = "admitted" => Head(cyc[l].opps).base \notin cyc[l].denied)

\* BTC was denied (already held) and the cycle went on to open ETH, whose
\* orders are out
C13_Witness ==
    /\ cyc[0].denied = {"BTC"}
    /\ \E i \in 1..Len(positions) : positions[i].perp_symbol = PerpSym("BTC")
    /\ call[LoopThread(0)].op = "open" /\ call[LoopThread(0)].base = "ETH"
    /\ call[LoopThread(0)].sent # <<>>

\* the ratio in frame cy is at or above the critical threshold
ReadCritical(cy) == cy.mm # NoRate /\ cy.mm >= MarginCriticalThreshold

\* C15: the margin step of a cycle invokes EmergencyController.trigger
\* exactly when the ratio it read is at or above the critical threshold
\* (equality included): a first invocation sets the flag and snapshots the
\* positions, a later one is the controller's no-op.  A ratio below critical,
\* at or above the alert threshold or not, leaves the emergency state as it
\* is and ends the cycle.  trigger() starts from a cycle only on a critical
\* read, and after invoking it the loop task makes no manager call and only
\* ends the cycle.
C15_CriticalMarginInvokesEmergency ==
    /\ [][\A l \in LoopIds :
            (cyc[l].pc = "margin" /\ cyc'[l] # cyc[l]) =>
                /\ cyc'[l].invoked = IF ReadCritical(cyc'[l]) THEN 1 ELSE 0
                /\ call' = call /\ positions' = positions
                /\ IF ReadCritical(cyc'[l])
                   THEN /\ triggered'
                        /\ IF triggered
                           THEN emgVars' = emgVars /\ cyc'[l].pc = "sleeping"
                           ELSE /\ trig'[TrigOf(l)].pc # "idle"
                                /\ ~trig'[TrigOf(l)].noop
                                /\ trig'[TrigOf(l)].snapshot = OpenIds(positions)
                                /\ cyc'[l].pc = "emergency"
                   ELSE emgVars' = emgVars /\ cyc'[l].pc = "sleeping"
                /\ (IsMarginAlert(cyc'[l].mm) /\ ~ReadCritical(cyc'[l])) =>
                       (triggered' = triggered /\ trig' = trig /\ task' = task)]_vars
    /\ [][\A i \in TrigIds :
            (trig[i].pc = "idle" /\ trig'[i].pc # "idle") =>
                \E l \in LoopIds : /\ TrigOf(l) = i /\ cyc[l].pc = "margin"
                                   /\ ReadCritical(cyc'[l])]_vars
    /\ [](\A l \in LoopIds :
            cyc[l].invoked > 0 =>
                /\ cyc[l].pc \in {"emergency", "sleeping"}
                /\ call[LoopThread(l)] = IdleCall)
    /\ [][\A l \in LoopIds :
            (cyc[l].pc = "emergency" /\ cyc'[l] # cyc[l]) => cyc'[l].pc = "sleeping"]_vars

\* a cycle read exactly the critical threshold and its emergency stop has the
\* close tasks of the open positions under way
C15_Witness ==
    /\ cyc[0].pc = "emergency" /\ cyc[0].mm = MarginCriticalThreshold
    /\ cyc[0].invoked = 1
    /\ trig[TrigOf(0)].pc = "gathering" /\ trig[TrigOf(0)].snapshot # <<>>

LastSettlement(f) == IF f.settled = <<>> THEN 0 ELSE f.settled[Len(f.settled)]

\* C22: simulated funding settlement is triggered once 8 hours have elapsed
\* since the last settlement and never before, whatever the cycles do: a
\* settlement is made only when the interval has elapsed since the last one,
\* and every iteration of the loop that ends with the interval elapsed,
\* whether its cycle returned or raised, settles the open positions and
\* restarts the timer.
C22_SettlementIndependentOfCycles ==
    /\ [][funding'.settled # funding.settled =>
            /\ funding'.settled = Append(funding.settled, funding.now)
            /\ funding.now - LastSettlement(funding) >= FundingSettlementInterval]_vars
    /\ [][( /\ funding.pc = "cycle" /\ funding'.pc = "sleeping"
            /\ funding.now - funding.last_funding_check >= FundingSettlementInterval
            /\ positions' # <<>>) =>
                /\ funding'.settled = Append(funding.settled, funding.now)
                /\ funding'.last_funding_check = funding.now]_vars

\* the step in which loop task l begins a cycle
BeginsCycle(l) == cyc[l].pc = "top" /\ cyc'[l].pc \notin {"top", "done"}

\* C23 as stated: a cycle in which nothing was ranked returns early, without
\* a close, an open or a margin check.
C23_NoOpportunityReturnsEarly ==
    [][\A l \in LoopIds :
         (BeginsCycle(l) /\ cyc'[l].opps = <<>>) => cyc'[l].pc = "sleeping"]_vars

\* C23 amended: a cycle whose scan finds no funding rates returns early: it
\* makes no manager call, reads no margin ratio, invokes no emergency stop and
\* leaves the registry as it is.  A cycle that has rates but no ranked
\* opportunity still runs the close pass over every open position and goes on
\* to the margin check; it never reaches the admission check.
C23_NoRatesReturnsEarly ==
    /\ [][\A l \in LoopIds :
            BeginsCycle(l) =>
                IF ~cyc'[l].has_rates
                THEN /\ cyc'[l] = [TopCyc EXCEPT !.pc = "sleeping"]
                     /\ cycleLock' = NoThread
                     /\ mgrVars' = mgrVars /\ pnlVars' = pnlVars /\ emgVars' = emgVars
                ELSE /\ cycleLock' = LoopThread(l)
                     /\ cyc'[l].closes = OpenIds(positions)
                     /\ cyc'[l].pc = IF positions # <<>> THEN "closing"
                                     ELSE IF cyc'[l].opps # <<>> THEN "opening"
                                     ELSE "margin"]_vars
    /\ [](\A l \in LoopIds :
            /\ InCycle(l) => cyc[l].has_rates
            /\ cyc[l].pc \in {"opening", "admitted"} => cyc[l].opps # <<>>)

\* a cycle that had rates but no ranked opportunity is closing a position
C23_Witness ==
    /\ cyc[0].pc = "closing" /\ cyc[0].has_rates /\ cyc[0].opps = <<>>
    /\ call[LoopThread(0)].op = "close" /\ call[LoopThread(0)].sent # <<>>

OpenPrelude(t, b, perp_price, spot_price, sizes) ==
    LET price == IF perp_price # NoPrice THEN perp_price ELSE spot_price
    IN  IF price = NoPrice \/ sizes[price] = NoQty
        THEN /\ last' = [op |-> "open",
                         outcome |-> IF price = NoPrice THEN "price_unavailable"
                                     ELSE "insufficient_size",
                         pid |-> 0, sent |-> <<>>]
             /\ call' = call /\ positions' = positions /\ nextId' = nextId
             /\ lock' = lock /\ pnlVars' = pnlVars
        ELSE /\ call'[t].sent = <<OrderRequest(SpotSym(b), "buy", sizes[price], "spot"),
                                  OrderRequest(PerpSym(b), "sell", sizes[price], "linear")>>
             /\ positions' = positions

\* C25: open_position sizes the pair at the perp symbol's price and, when
\* there is none, at the spot symbol's price; with neither price it fails with
\* price-unavailable and when the sizer returns None it fails with
\* insufficient-size, in both cases without an order and with the registry
\* (and every call frame) unchanged.
C25_PriceFallbackAndEarlyFailures ==
    [][\A t \in MgrThreads, b \in Bases, perp_price \in Prices \cup {NoPrice},
          spot_price \in Prices \cup {NoPrice}, sizes \in [Prices -> {NoQty, ReqQty}] :
            OpenPosition(t, b, perp_price, spot_price, sizes) =>
                OpenPrelude(t, b, perp_price, spot_price, sizes)]_vars

\* an open_position call failed on size while a position was registered; no
\* order was sent for it
C25_Witness ==
    /\ last.op = "open" /\ last.outcome = "insufficient_size" /\ last.sent = <<>>
    /\ positions # <<>>

\* the outcome the claim allows for the call in frame c when it stops
\* waiting for its legs: a function of what each leg delivered, whatever the
\* order of arrival and whether the other leg had answered when one raised
LegOutcome(c) ==
    IF GatherRaised(c) THEN IF c.op = "open" THEN "hedge_error" ELSE "leg_error"
    ELSE IF ~GatherDone(c) THEN "hedge_timeout"
    ELSE IF c.op = "close" THEN "ok"
    ELSE IF IsWithinTolerance(c.spot.res.filled_qty, c.perp.res.filled_qty) THEN "ok"
    ELSE "unwind"

C27_RegistryWithinLimits ==
    /\ Len(positions) <= MaxSimultaneousPositions
    /\ \A i, j \in DOMAIN positions :
          i # j => positions[i].perp_symbol # positions[j].perp_symbol

\* C28: every open_position and close_position call that holds the manager
\* lock eventually returns or raises and releases it, even when a
\* place_order call never completes.
C28_CallsReleaseTheLock ==
    \A t \in MgrThreads :
        (call[t].phase # "idle") ~> (call[t].phase = "idle" /\ lock # t)

\* C29: once shutdown has begun (stop() has been called or the emergency
\* flag is set) no position is added to the registry; a cycle in progress at
\* that moment opens nothing afterwards.
C29_NoOpenAfterShutdown ==
    [][(triggered \/ ~running) => nextId' = nextId]_vars

\* thread t is inside close_position with its closing orders submitted
Closing(t, pid) ==
    call[t].op = "close" /\ call[t].phase = "executing" /\ call[t].pid = pid

\* the step is a close_position(pid) call by t for an id that is not in the
\* registry (for the loop task: the call _close_unprofitable_positions makes)
ClosesAbsent(t, pid) ==
    /\ ~HasId(positions, pid)
    /\ t = LoopThread(0) => (cyc[0].pc = "closing" /\ Head(cyc[0].closes) = pid)
    /\ CloseBegin(t, pid)

\* C30: among the concurrent closers of a position (cycle, graceful stop,
\* emergency close tasks) at most one close_position call at a time has
\* closing orders out for it, and while it has, the position is out of the
\* registry; a close_position for an id that is not in the registry fails
\* with no order submitted and the registry, the lock and every call frame
\* unchanged.
C30_OneCloserAtATime ==
    /\ [](\A pid \in PosIds : \A t1, t2 \in ShutThreads :
            (Closing(t1, pid) /\ Closing(t2, pid)) => t1 = t2)
    /\ [](\A pid \in PosIds : \A t \in ShutThreads :
            Closing(t, pid) => ~HasId(positions, pid))
    /\ [][\A t \in ShutThreads, pid \in PosIds :
            ClosesAbsent(t, pid) =>
                /\ positions' = positions
                /\ call' = call
                /\ lock' = lock]_vars

\* an emergency close task has its orders out for position 1 while the cycle
\* is about to close the same position
C30_Witness ==
    /\ Closing(TaskThread(1), 1)
    /\ cyc[0].pc = "closing" /\ cyc[0].closes # <<>> /\ Head(cyc[0].closes) = 1

\* C31: at the step in which trigger returns, every id in failed_ids is still
\* in the registry and every id in closed_ids is not.
C31_FailedStillOpenClosedGone ==
    [][\A i \in TrigIds :
          (trig[i].pc # "returned" /\ trig'[i].pc = "returned") =>
              /\ \A k \in DOMAIN trig'[i].failed_ids :
                    HasId(positions', trig'[i].failed_ids[k])
              /\ \A k \in DOMAIN trig'[i].closed_ids :
                    ~HasId(positions', trig'[i].closed_ids[k])]_vars

\* C32: after a successful close of a committed position the net spot
\* exposure and the net perp exposure it leaves are both zero, whatever the
\* two opening legs filled within the tolerance.
C32_CloseFlattensBothLegs ==
    (fn.name = "net" /\ fn.stage = "closed") => (fn.spot = 0 /\ fn.perp = 0)

\* the step in which the cycle of loop task l reads a critical margin ratio
\* while the registry is non-empty
ReadsCriticalWithPositions(l) ==
    /\ cyc[l].pc = "margin" /\ cyc'[l].pc # "margin"
    /\ IsMarginCritical(cyc'[l].mm)
    /\ positions # <<>>

\* C33: every time a cycle reads a margin ratio at or above the critical
\* threshold with a non-empty registry, a close task is started for every
\* open position, and the cycle does not end before each of them has made a
\* close attempt.
C33_CriticalMarginAlwaysClosesAll ==
    /\ [][\A l \in LoopIds :
            ReadsCriticalWithPositions(l) =>
                /\ cyc'[l].pc = "emergency"
                /\ \A k \in DOMAIN positions :
                      /\ task'[positions[k].id].st = "running"
                      /\ task'[positions[k].id].hist = <<>>]_vars
    /\ [][\A l \in LoopIds :
            (cyc[l].pc = "emergency" /\ cyc'[l].pc # "emergency") =>
                \A k \in DOMAIN trig[TrigOf(l)].snapshot :
                    task[trig[TrigOf(l)].snapshot[k]].hist # <<>>]_vars

\* loop task l has been created and has not ended
LoopAlive(l) == cyc[l].pc \notin {"off", "restarting", "done"}

\* C34: at most one run-loop task executes cycles: once restart() has
\* created a new loop task, the loop task that was running before it begins
\* no further cycle.
C34_OneLoopTaskRunsCycles ==
    [][\A l \in LoopIds, m \in LoopIds :
          (l < m /\ BeginsCycle(l)) => ~LoopAlive(m)]_vars

\* C35: the two locks cannot deadlock.  Only loop tasks hold the cycle lock;
\* a loop task holds the manager lock only while it holds the cycle lock; a
\* cycle awaiting trigger() holds the cycle lock and not the manager lock;
\* the stop callback of a trigger whose close tasks have all settled can
\* start at once, whoever holds the cycle lock; and a cycle that entered the
\* emergency stop always reaches its end.
C35_LocksCannotDeadlock ==
    /\ [](cycleLock \in {NoThread} \cup {LoopThread(l) : l \in LoopIds})
    /\ [](\A l \in LoopIds : lock = LoopThread(l) => cycleLock = LoopThread(l))
    /\ [](\A l \in LoopIds :
            cyc[l].pc = "emergency" =>
                (cycleLock = LoopThread(l) /\ lock # LoopThread(l)))
    /\ [](\A i \in TrigIds :
            (trig[i].pc = "gathering" /\ AllSettled(trig[i].snapshot)) =>
                ENABLED TrigCollect(i))
    /\ \A l \in LoopIds : (cyc[l].pc = "emergency") ~> (cyc[l].pc = "sleeping")

\* a cycle awaits trigger() with a close task of its emergency holding the
\* manager lock
C35_Witness ==
    \E l \in LoopIds, p \in PosIds :
        /\ cyc[l].pc = "emergency" /\ cycleLock = LoopThread(l)
        /\ lock = TaskThread(p)

\* the step in which a trigger() call in frame i is entered
TriggerEntered(i) == trig[i].pc = "idle" /\ trig'[i].pc # "idle"

CycleCloseEnds(l) ==
    /\ call[LoopThread(l)].op = "close" /\ call[LoopThread(l)].phase = "executing"
    /\ call'[LoopThread(l)].phase = "idle"

\* C37: in the close step of a cycle a close is attempted for a position
\* only when its funding rate is unavailable or strictly below the exit rate,
\* and the position is left alone only when its rate is at or above it; the
\* positions of the snapshot are taken one by one to the last, and when a
\* close ends, whatever its outcome, the cycle goes on with the next.
C37_ClosesBelowExitRate ==
    /\ [][\A l \in LoopIds, rate \in FundingRates :
            CycClose(l, rate) => (rate = NoRate \/ rate < ExitFundingRate)]_vars
    /\ [][\A l \in LoopIds, rate \in FundingRates :
            CycKeep(l, rate) =>
                /\ rate # NoRate /\ rate >= ExitFundingRate
                /\ call' = call /\ positions' = positions]_vars
    /\ [][\A l \in LoopIds :
            (cyc[l].pc = "closing" /\ cyc'[l].pc # "closing") =>
                Len(cyc[l].closes) = 1]_vars
    /\ [][\A l \in LoopIds :
            CycleCloseEnds(l) =>
                IF Len(cyc[l].closes) = 1
                THEN cyc'[l].pc # "closing"
                ELSE cyc'[l].pc = "closing" /\ cyc'[l].closes = Tail(cyc[l].closes)]_vars

\* the close of position 1 timed out in this cycle (it was put back behind
\* position 2) and the cycle has gone on to position 2
C37_Witness ==
    \E l \in LoopIds :
        /\ cyc[l].pc = "closing" /\ cyc[l].closes = <<2>>
        /\ Len(positions) = 2 /\ positions[1].id = 2 /\ positions[2].id = 1

====
